---------------------------- MODULE Spec2Model ----------------------------
(***************************************************************************)
(* A model of the GDPR violation finder's analysis pipeline                *)
(* (src/src/violation_finder/violation_finder.py and the retrieval step of *)
(* src/src/rag/gdpr_rag.py): the Retrieval Coordinator, the Violation      *)
(* Parser, the Citation Validator and the Risk Aggregator.                 *)
(*                                                                         *)
(* Text is modelled as TLA+ strings read character by character, so that   *)
(* splitting, stripping, lower-casing and regular-expression matching are  *)
(* computed as Python computes them.  Floating-point scores are modelled   *)
(* as exact rationals (reduced fractions); risk scores are kept in tenths  *)
(* and weights in tenths.                                                  *)
(***************************************************************************)
EXTENDS Integers, Sequences, FiniteSets, TLC

VARIABLES
    pc,           \* position of the operation under analysis
    violations,   \* Risk Aggregator: the violation list passed in
    assessment,   \* Risk Aggregator: the RiskAssessment returned (or None)
    response,     \* Violation Parser: the model output passed in
    parsed,       \* Violation Parser: the list returned (or None)
    articles,     \* Citation Validator: violation_data['articles']
    context,      \* Citation Validator: the candidate list passed in
    cited,        \* Citation Validator: what _extract_citations produced
    scenario,     \* Retrieval Coordinator: the scenario text passed in
    all_results,  \* Retrieval Coordinator: the concatenated strategy results
    unique_results, \* Retrieval Coordinator: the list returned (or None)
    rem,          \* Remediation Mapper: the calls and what each returned
    rag,          \* RAG system: the candidate index, whether a reranker is loaded
    req,          \* analyze_scenario: the local state of each analysis request
    batch,        \* Reranker: one retrieve_context call and what it returned
    blk           \* Violation Parser: one block and the violation_data read from it

vars == <<pc, violations, assessment, response, parsed, articles, context,
          cited, scenario, all_results, unique_results, rem, rag, req,
          batch, blk>>

\* Python's None.
None == "None"

-----------------------------------------------------------------------------
(***************************************************************************)
(* Strings, as Python's str methods compute them.                          *)
(***************************************************************************)

Char(s, i) == SubSeq(s, i, i)

Min(a, b) == IF a <= b THEN a ELSE b

Max(a, b) == IF a >= b THEN a ELSE b

\* s[:n]
Prefix(s, n) == SubSeq(s, 1, Min(n, Len(s)))

\* s[i-1:] for a 1-based position i
Suffix(s, i) == SubSeq(s, i, Len(s))

\* s startswith p at 1-based position i
StartsAt(s, p, i) == i + Len(p) - 1 <= Len(s) /\ SubSeq(s, i, i + Len(p) - 1) = p


\* the first position from i on where p occurs in s, 0 when there is none;
\* the text is searched 32 positions at a time
RECURSIVE FindFrom(_, _, _)
FindFrom(s, p, i) ==
    LET last == Len(s) - Len(p) + 1
        hits == {j \in i..Min(i + 31, last) : StartsAt(s, p, j)}
    IN  IF i > last THEN 0
        ELSE IF hits # {} THEN CHOOSE j \in hits : \A k \in hits : j <= k
        ELSE FindFrom(s, p, i + 32)

\* `p in s`
Contains(s, p) == FindFrom(s, p, 1) > 0

UpperLetters == "ABCDEFGHIJKLMNOPQRSTUVWXYZ"
LowerLetters == "abcdefghijklmnopqrstuvwxyz"
Digits == "0123456789"

CharsOf(s) == {Char(s, i) : i \in 1..Len(s)}

UpperSet == CharsOf(UpperLetters)
DigitSet == CharsOf(Digits)
\* \s
Whitespace == {" ", "\n", "\t", "\r", "\f"}
\* \w
WordChars == UpperSet \cup CharsOf(LowerLetters) \cup DigitSet \cup {"_"}

IsUpper(c) == c \in UpperSet
IsDigit(c) == c \in DigitSet
IsSpace(c) == c \in Whitespace
IsWordChar(c) == c \in WordChars

LowerChar(c) ==
    IF IsUpper(c) THEN Char(LowerLetters, FindFrom(UpperLetters, c, 1)) ELSE c

\* str.lower()
RECURSIVE ToLower(_)
ToLower(s) == IF s = "" THEN "" ELSE LowerChar(Char(s, 1)) \o ToLower(Tail(s))

\* str.strip(chars) for a set of characters
RECURSIVE LStripChars(_, _)
LStripChars(s, cs) ==
    IF s # "" /\ Char(s, 1) \in cs THEN LStripChars(Tail(s), cs) ELSE s

RECURSIVE RStripChars(_, _)
RStripChars(s, cs) ==
    IF s # "" /\ Char(s, Len(s)) \in cs
    THEN RStripChars(SubSeq(s, 1, Len(s) - 1), cs) ELSE s

StripChars(s, cs) == RStripChars(LStripChars(s, cs), cs)

\* str.strip()
Strip(s) == StripChars(s, Whitespace)

\* str.split(sep): always at least one piece
RECURSIVE Split(_, _)
Split(s, sep) ==
    LET i == FindFrom(s, sep, 1)
    IN  IF i = 0 THEN <<s>>
        ELSE <<SubSeq(s, 1, i - 1)>> \o Split(Suffix(s, i + Len(sep)), sep)

\* str.split(sep, 1)
SplitOnce(s, sep) ==
    LET i == FindFrom(s, sep, 1)
    IN  IF i = 0 THEN <<s>> ELSE <<SubSeq(s, 1, i - 1), Suffix(s, i + Len(sep))>>

\* str.replace(a, b) for a single character a
RECURSIVE ReplaceChar(_, _, _)
ReplaceChar(s, a, b) ==
    IF s = "" THEN ""
    ELSE (IF Char(s, 1) = a THEN b ELSE Char(s, 1)) \o ReplaceChar(Tail(s), a, b)

\* sep.join(pieces)
RECURSIVE Join(_, _)
Join(pieces, sep) ==
    IF pieces = <<>> THEN ""
    ELSE IF Len(pieces) = 1 THEN pieces[1]
    ELSE pieces[1] \o sep \o Join(Tail(pieces), sep)

\* str.replace(a, b) for a non-empty a
Replace(s, a, b) == Join(Split(s, a), b)

\* the first position from i on whose character is not in cs (Len(s) + 1
\* when there is none)
RECURSIVE SpanIn(_, _, _)
SpanIn(s, i, cs) ==
    IF i <= Len(s) /\ Char(s, i) \in cs THEN SpanIn(s, i + 1, cs) ELSE i

\* the first position from i on whose character is in cs
RECURSIVE SpanNotIn(_, _, _)
SpanNotIn(s, i, cs) ==
    IF i <= Len(s) /\ Char(s, i) \notin cs THEN SpanNotIn(s, i + 1, cs) ELSE i

\* str.split(): pieces separated by runs of whitespace, none empty
RECURSIVE SplitWhitespace(_)
SplitWhitespace(s) ==
    LET t == LStripChars(s, Whitespace)
        e == SpanNotIn(t, 1, Whitespace)
    IN  IF t = "" THEN <<>>
        ELSE <<SubSeq(t, 1, e - 1)>> \o SplitWhitespace(Suffix(t, e))

-----------------------------------------------------------------------------
(***************************************************************************)
(* Exact rationals for the float arithmetic of the Risk Aggregator.        *)
(***************************************************************************)

RECURSIVE GCD(_, _)
GCD(a, b) == IF b = 0 THEN a ELSE GCD(b, a % b)

\* the reduced fraction n/d (n >= 0, d > 0)
Rat(n, d) == LET g == GCD(n, d) IN [num |-> n \div g, den |-> d \div g]

RatMul(a, b) == Rat(a.num * b.num, a.den * b.den)

\* a >= k for an integer k
RatGeqInt(a, k) == a.num >= k * a.den

\* a <= b
RatLeq(a, b) == a.num * b.den <= b.num * a.den

\* min(a, b)
RatMin(a, b) == IF RatLeq(a, b) THEN a ELSE b

-----------------------------------------------------------------------------
(***************************************************************************)
(* Records.                                                                *)
(***************************************************************************)

\* GDPRViolation(...) with the dataclass defaults for the optional fields;
\* risk_score is in tenths
GDPRViolation(cat, sev, arts, desc, evid, rec, risk, hl, notes, meta) ==
    [category |-> cat, severity |-> sev, articles |-> arts,
     description |-> desc, evidence |-> evid, recommendation |-> rec,
     risk_score |-> risk, highlighted_text |-> hl, source_citations |-> None,
     verification_notes |-> notes, context_metadata |-> meta,
     remediation_guidance |-> None]

\* severity_scores of the Violation Parser, in tenths
ScoreCritical == 90
ScoreHigh == 70
ScoreMedium == 50
ScoreLow == 30
\* the default of severity_scores.get, in tenths
ScoreDefault == 50

SeverityScoreByPrefix(sev) ==
    CASE Contains(sev, "Critical") -> ScoreCritical
      [] Contains(sev, "High") -> ScoreHigh
      [] Contains(sev, "Low") -> ScoreLow
      [] OTHER -> ScoreDefault

\* severity_scores.get(severity, 5.0)
SeverityScore(sev) ==
    CASE sev = "Critical" -> ScoreCritical
      [] sev = "High" -> ScoreHigh
      [] sev = "Medium" -> ScoreMedium
      [] sev = "Low" -> ScoreLow
      [] OTHER -> ScoreDefault

-----------------------------------------------------------------------------
(***************************************************************************)
(* Violation Parser: GDPRViolationFinder._parse_violations_from_response.  *)
(***************************************************************************)

\* violation_blocks[:10]
MaxBlocks == 10
\* violation_data['description'][:500]
MaxEvidence == 500
\* response[:250] of the fallback
MaxFallbackEvidence == 250
\* risk_score=5.0 of the fallback, in tenths
FallbackScore == 50

BlockMarker == "VIOLATION "

\* violation_data at the start of a block
EmptyViolationData ==
    [category |-> "", severity |-> "Medium", articles |-> <<>>,
     quote |-> "", description |-> ""]

\* [a.strip() for a in value.replace(',', ' ').split() if a.strip()]
ParseArticles(value) == SplitWhitespace(ReplaceChar(value, ",", " "))

ParseLineWhyFirst(data, raw) ==
    LET line == Strip(raw)
    IN  IF line = "" \/ ~Contains(line, ":") THEN data
        ELSE LET kv == SplitOnce(line, ":")
                 key == ToLower(Strip(kv[1]))
                 value == Strip(kv[2])
             IN  IF Contains(key, "category")
                     THEN [data EXCEPT !.category = value]
                 ELSE IF Contains(key, "severity")
                     THEN [data EXCEPT !.severity = value]
                 ELSE IF Contains(key, "why") \/ Contains(key, "description")
                     THEN [data EXCEPT !.description = value]
                 ELSE IF Contains(key, "article")
                     THEN [data EXCEPT !.articles = ParseArticles(value)]
                 ELSE IF Contains(key, "quote") \/ Contains(key, "problematic")
                     THEN [data EXCEPT !.quote = StripChars(value, {"\"", "'"})]
                 ELSE data

\* one pass of the loop over the lines of a block
ParseLine(data, raw) ==
    LET line == Strip(raw)
    IN  IF line = "" \/ ~Contains(line, ":") THEN data
        ELSE LET kv == SplitOnce(line, ":")
                 key == ToLower(Strip(kv[1]))
                 value == Strip(kv[2])
             IN  IF Contains(key, "category")
                     THEN [data EXCEPT !.category = value]
                 ELSE IF Contains(key, "severity")
                     THEN [data EXCEPT !.severity = value]
                 ELSE IF Contains(key, "article")
                     THEN [data EXCEPT !.articles = ParseArticles(value)]
                 ELSE IF Contains(key, "quote") \/ Contains(key, "problematic")
                     THEN [data EXCEPT !.quote = StripChars(value, {"\"", "'"})]
                 ELSE IF Contains(key, "why") \/ Contains(key, "description")
                     THEN [data EXCEPT !.description = value]
                 ELSE data

RECURSIVE ParseLines(_, _)
ParseLines(lines, data) ==
    IF lines = <<>> THEN data
    ELSE ParseLines(Tail(lines), ParseLine(data, Head(lines)))

\* violation_data after the lines of block.strip().split('\n')
ParseBlock(block) == ParseLines(Split(Strip(block), "\n"), EmptyViolationData)

\* the GDPRViolation built from violation_data
BlockViolation(data) ==
    GDPRViolation(
        data.category,
        data.severity,
        data.articles,
        IF data.description # "" THEN data.description
        ELSE "GDPR violation related to " \o data.category,
        IF data.description # "" THEN Prefix(data.description, MaxEvidence)
        ELSE "",
        "",
        SeverityScore(data.severity),
        data.quote,
        None,
        [source |-> "LLM Analysis", parser |-> "text"])

\* the first definition of _create_fallback_violation, which the second
\* definition of the same name replaces
CreateFallbackViolationShadowed(resp) ==
    GDPRViolation(
        "GDPR Compliance Review", "Medium", <<>>,
        "Automated analysis identified potential compliance issues",
        IF resp # "" THEN Prefix(resp, MaxEvidence) ELSE "",
        "Conduct detailed manual compliance review with legal counsel",
        FallbackScore, "", None,
        [source |-> "Fallback",
         verification |->
             "Manual review recommended - automated parsing incomplete"])

\* _create_fallback_violation: the definition in force
CreateFallbackViolation(resp) ==
    GDPRViolation(
        "GDPR Compliance Review", "Medium", <<>>,
        "Automated analysis identified potential compliance issues",
        Prefix(resp, MaxFallbackEvidence),
        "Conduct detailed manual compliance review with legal counsel",
        FallbackScore, None,
        "Manual review recommended - automated parsing incomplete", None)

RECURSIVE ParseBlocksAbort(_)
ParseBlocksAbort(blocks) ==
    IF blocks = <<>> THEN <<>>
    ELSE LET data == ParseBlock(Head(blocks))
         IN  IF data.category # ""
             THEN <<BlockViolation(data)>> \o ParseBlocksAbort(Tail(blocks))
             ELSE <<>>

\* the loop over violation_blocks[:10]: a block without a category is skipped
RECURSIVE ParseBlocks(_)
ParseBlocks(blocks) ==
    IF blocks = <<>> THEN <<>>
    ELSE LET data == ParseBlock(Head(blocks))
         IN  (IF data.category # "" THEN <<BlockViolation(data)>> ELSE <<>>)
             \o ParseBlocks(Tail(blocks))

ViolationBlocksNoSpace(resp) == Tail(Split(resp, "VIOLATION"))

\* response.split('VIOLATION ')[1:]
ViolationBlocks(resp) == Tail(Split(resp, BlockMarker))

FallbackIfEmptyMissing(vs, resp) == vs

\* if not violations: violations.append(self._create_fallback_violation(..))
FallbackIfEmpty(vs, resp) ==
    IF vs = <<>> THEN <<CreateFallbackViolation(resp)>> ELSE vs

\* the list _parse_violations_from_response returns
ParseViolationsFromResponse(resp) ==
    LET violation_blocks == ViolationBlocks(resp)
    IN  IF violation_blocks = <<>>
        THEN <<CreateFallbackViolation(resp)>>
        ELSE FallbackIfEmpty(
                 ParseBlocks(SubSeq(violation_blocks, 1,
                                    Min(Len(violation_blocks), MaxBlocks))),
                 resp)

-----------------------------------------------------------------------------
(***************************************************************************)
(* Reranker's quality tiers: GDPRRAGSystem._classify_quality_tier.         *)
(* Relevance scores (0.0 to 1.0) are kept in hundredths.                   *)
(***************************************************************************)

TierExcellent == 45
TierGood == 38
TierFair == 30

ClassifyQualityTier(rerank_score) ==
    IF rerank_score >= TierExcellent THEN "Excellent"
    ELSE IF rerank_score >= TierGood THEN "Good"
    ELSE IF rerank_score >= TierFair THEN "Fair"
    ELSE "Marginal"

-----------------------------------------------------------------------------
(***************************************************************************)
(* Citation Validator: GDPRViolationFinder._extract_citations.             *)
(***************************************************************************)

\* articles[:3]
MaxCitations == 3
\* best_match['relevance'] >= 0.20, in hundredths
RelevanceFloor == 20
\* text[:200]
MaxQuote == 200

\* dict.get(key, default)
Get(d, key, default) == IF key \in DOMAIN d THEN d[key] ELSE default

\* re.search(r'\d+', article_ref): the first run of digits, "" without one
FirstNumber(ref) ==
    LET i == SpanNotIn(ref, 1, DigitSet)
    IN  IF i > Len(ref) THEN "" ELSE SubSeq(ref, i, SpanIn(ref, i, DigitSet) - 1)

\* "Article" in any case at position i, then whitespace, then num: the
\* position after num, 0 when it does not match there
ArticleNumberAt(text, num, i) ==
    LET j == SpanIn(text, i + 7, Whitespace)
    IN  IF /\ i + 6 <= Len(text)
           /\ ToLower(SubSeq(text, i, i + 6)) = "article"
           /\ j > i + 7
           /\ StartsAt(text, num, j)
        THEN j + Len(num) ELSE 0

\* \b before position i and \b after the character before position e, both
\* next to a word character
BoundaryBefore(text, i) == i = 1 \/ ~IsWordChar(Char(text, i - 1))
BoundaryAfter(text, e) == e > Len(text) \/ ~IsWordChar(Char(text, e))

ExactArticleMatchNoBoundary(text, num) ==
    \E i \in 1..Len(text) :
        BoundaryBefore(text, i) /\ ArticleNumberAt(text, num, i) > 0

\* re.search(rf'\bArticle\s+{num}\b', text, re.IGNORECASE)
ExactArticleMatch(text, num) ==
    \E i \in 1..Len(text) :
        /\ BoundaryBefore(text, i)
        /\ ArticleNumberAt(text, num, i) > 0
        /\ BoundaryAfter(text, ArticleNumberAt(text, num, i))

ClauseEnd == {"\n", "."}

\* re.search(rf'(Article\s+{num}[^\n.]*(?:\.[^\n.]*)?)', text, re.IGNORECASE)
\* applied to a text, and the fallback text[:200]
ClauseQuote(text, num) ==
    LET starts == {i \in 1..Len(text) : ArticleNumberAt(text, num, i) > 0}
    IN  IF starts = {} THEN Prefix(text, MaxQuote)
        ELSE LET i == CHOOSE a \in starts : \A b \in starts : a <= b
                 e1 == SpanNotIn(text, ArticleNumberAt(text, num, i), ClauseEnd)
                 e2 == IF e1 <= Len(text) /\ Char(text, e1) = "."
                       THEN SpanNotIn(text, e1 + 1, ClauseEnd) ELSE e1
             IN  SubSeq(text, i, e2 - 1)

ExtractQuoteLowered(text, num) == ClauseQuote(ToLower(text), num)

\* quote: the clause searched in text (not in text_lower)
ExtractQuote(text, num) == ClauseQuote(text, num)

RelevanceBaseFirst(ctx) == Get(ctx, "score", Get(ctx, "rerank_score", 0))

\* relevance = ctx.get('rerank_score', ctx.get('score', 0.0))
Relevance(ctx) == Get(ctx, "rerank_score", Get(ctx, "score", 0))

\* the Recital check: 'recital' in text_lower and 'article' not in text_lower
RecitalOnly(text) ==
    Contains(ToLower(text), "recital") /\ ~Contains(ToLower(text), "article")

MatchesNumberOnly(ctx, num) ==
    num # "" /\ Contains(Get(ctx, "text", ""), num)

\* a candidate that passes the Recital check and the exact match for num
Matches(ctx, num) ==
    /\ ~RecitalOnly(Get(ctx, "text", ""))
    /\ num # ""
    /\ ExactArticleMatch(Get(ctx, "text", ""), num)

\* best_match for one candidate
MatchOf(ctx, num) ==
    [quote |-> ExtractQuote(Get(ctx, "text", ""), num),
     text |-> Get(ctx, "text", ""),
     metadata |-> Get(ctx, "metadata", <<>>),
     relevance |-> Relevance(ctx),
     quality_tier |-> Get(ctx, "quality_tier", "Unknown")]

\* the loop over the candidates: best is <<>> (None) or <<best_match>>, and
\* a later candidate replaces it only with a strictly higher relevance
RECURSIVE BestMatch(_, _, _, _)
BestMatch(ctxs, num, best_score, best) ==
    IF ctxs = <<>> THEN best
    ELSE LET ctx == Head(ctxs)
         IN  IF Matches(ctx, num) /\ Relevance(ctx) > best_score
             THEN BestMatch(Tail(ctxs), num, Relevance(ctx), <<MatchOf(ctx, num)>>)
             ELSE BestMatch(Tail(ctxs), num, best_score, best)

AcceptableAnyTier(m) == m.relevance >= RelevanceFloor

\* is_acceptable_tier and has_minimum_score
Acceptable(m) ==
    /\ m.quality_tier \in {"Excellent", "Good", "Fair", "Marginal"}
    /\ m.relevance >= RelevanceFloor

\* the accepted matches, in the order of the references: each is the
\* best_match of its reference, with the reference
RECURSIVE AcceptedMatches(_, _)
AcceptedMatches(refs, ctxs) ==
    IF refs = <<>> THEN <<>>
    ELSE LET best == BestMatch(ctxs, FirstNumber(Head(refs)), 0, <<>>)
         IN  (IF best # <<>> /\ Acceptable(best[1])
              THEN <<[article_ref |-> Head(refs), best_match |-> best[1]]>>
              ELSE <<>>)
             \o AcceptedMatches(Tail(refs), ctxs)

\* SourceCitation(...)
SourceCitation(a) ==
    [article_or_recital |-> a.article_ref,
     quoted_text |-> a.best_match.quote,
     source_document |-> "GDPR Regulation (EU) 2016/679",
     context |-> Get(a.best_match.metadata, "section_title", "GDPR Articles"),
     relevance_score |-> a.best_match.relevance]

\* best_match at the end of the candidate loop, for each reference
SelectedMatches(refs, ctxs) ==
    [k \in 1..Len(refs) |-> BestMatch(ctxs, FirstNumber(refs[k]), 0, <<>>)]

\* _extract_citations: the citations list, the best_match behind each of its
\* citations, the best_match of each reference considered, and whether the
\* function returns the list or None
ExtractCitations(refs, ctxs) ==
    LET considered == IF refs = <<>> \/ ctxs = <<>> THEN <<>>
                      ELSE SubSeq(refs, 1, Min(Len(refs), MaxCitations))
        accepted == AcceptedMatches(considered, ctxs)
    IN  [citations |-> [k \in 1..Len(accepted) |-> SourceCitation(accepted[k])],
         matches |-> [k \in 1..Len(accepted) |-> accepted[k].best_match],
         selected |-> SelectedMatches(considered, ctxs),
         returns_none |-> accepted = <<>>]

-----------------------------------------------------------------------------
(***************************************************************************)
(* Retrieval Coordinator:                                                  *)
(* GDPRViolationFinder._retrieve_relevant_regulations.                     *)
(***************************************************************************)

\* top_k of the three strategies
TopKScenario == 15
TopKArticle == 5
TopKGeneric == 10
\* article_mentions[:3]
MaxMentions == 3
\* len(unique_results) >= 10 and unique_results[:10]
MaxUnique == 10
\* scenario[:500]
MaxQuery == 500

\* re.findall(r'article\s+(\d+)', text) from position i on
RECURSIVE FindMentions(_, _)
FindMentions(text, i) ==
    LET a == FindFrom(text, "article", i)
        d == SpanIn(text, a + 7, Whitespace)
        e == SpanIn(text, d, DigitSet)
    IN  IF a = 0 THEN <<>>
        ELSE IF d > a + 7 /\ e > d
             THEN <<SubSeq(text, d, e - 1)>> \o FindMentions(text, e)
             ELSE FindMentions(text, a + 1)

\* article_mentions
ArticleMentions(scen) == FindMentions(ToLower(scen), 1)

\* the queries sent to retrieve_context, with their top_k
StrategyQueries(scen) ==
    LET mentions == ArticleMentions(scen)
    IN  <<[query |-> Prefix(scen, MaxQuery), top_k |-> TopKScenario]>>
        \o [k \in 1..Min(Len(mentions), MaxMentions) |->
               [query |-> "Article " \o mentions[k] \o " GDPR",
                top_k |-> TopKArticle]]
        \o <<[query |-> "GDPR requirements obligations compliance",
              top_k |-> TopKGeneric]>>

\* result.get('chunk', {}).get('chunk_id') or
\* result.get('metadata', {}).get('chunk_id'); "" stands for a missing or
\* empty id, which Python treats as false
ChunkId(result) ==
    LET a == Get(Get(result, "chunk", <<>>), "chunk_id", "")
    IN  IF a # "" THEN a
        ELSE Get(Get(result, "metadata", <<>>), "chunk_id", "")

\* 'article' in text and 'recital' not in text, for text lower-cased
OperativeOnly(result) ==
    LET text == ToLower(Get(result, "text", ""))
    IN  Contains(text, "article") /\ ~Contains(text, "recital")

IsUnseenAlways(result, seen_ids) == ChunkId(result) # ""

\* if chunk_id and chunk_id not in seen_ids
IsUnseen(result, seen_ids) ==
    ChunkId(result) # "" /\ ChunkId(result) \notin seen_ids

\* the first pass: st is [seen_ids, unique_results]
RECURSIVE FirstPass(_, _)
FirstPass(results, st) ==
    IF results = <<>> THEN st
    ELSE LET result == Head(results)
         IN  IF IsUnseen(result, st.seen_ids) /\ OperativeOnly(result)
             THEN FirstPass(Tail(results),
                      [seen_ids |-> st.seen_ids \cup {ChunkId(result)},
                       unique_results |-> Append(st.unique_results, result)])
             ELSE FirstPass(Tail(results), st)

\* the second pass, which stops once 10 results are held
RECURSIVE SecondPass(_, _)
SecondPass(results, st) ==
    IF results = <<>> THEN st
    ELSE LET result == Head(results)
         IN  IF IsUnseen(result, st.seen_ids)
             THEN LET next == [seen_ids |-> st.seen_ids \cup {ChunkId(result)},
                               unique_results |->
                                   Append(st.unique_results, result)]
                  IN  IF Len(next.unique_results) >= MaxUnique THEN next
                      ELSE SecondPass(Tail(results), next)
             ELSE SecondPass(Tail(results), st)

\* the list _retrieve_relevant_regulations returns for all_results
MergeResults(results) ==
    LET st == SecondPass(results,
                  FirstPass(results, [seen_ids |-> {}, unique_results |-> <<>>]))
    IN  Prefix(st.unique_results, MaxUnique)

-----------------------------------------------------------------------------
(***************************************************************************)
(* RAG system: GDPRRAGSystem.retrieve_context, format_context and          *)
(* generate_response of src/src/rag/gdpr_rag.py.  Scores are in            *)
(* hundredths; raw rerank scores are integers.                             *)
(***************************************************************************)

\* retrieval_config.get('score_threshold', 0.7), in hundredths
ScoreThreshold == 70
\* doc['text'][:512]
RerankTextLimit == 512
\* the normalized score of a batch whose raw scores are all equal
DegenerateScore == 50

\* retrieve_k = top_k * 2 if self.reranker else top_k
RetrieveK(top_k, reranker) == IF reranker THEN top_k * 2 ELSE top_k

PassesThreshold(r) == r.score >= ScoreThreshold

\* filtered_results = [r for r in results if r['score'] >= score_threshold]
FilterByThreshold(results) == SelectSeq(results, PassesThreshold)

NormalizedScoreNoDegenerate(raw, min_score, max_score) ==
    IF max_score > min_score
    THEN ((raw - min_score) * 100) \div (max_score - min_score)
    ELSE 0

\* (rerank_scores - min_score) / (max_score - min_score), or 0.5 for a
\* batch of equal scores; in hundredths
NormalizedScore(raw, min_score, max_score) ==
    IF max_score > min_score
    THEN ((raw - min_score) * 100) \div (max_score - min_score)
    ELSE DegenerateScore

\* the four fields the rerank loop writes into a candidate record
RerankWrite(doc, raw_score, norm_score) ==
    ("rerank_score_raw" :> raw_score) @@ ("rerank_score" :> norm_score)
    @@ ("combined_score" :> norm_score)
    @@ ("quality_tier" :> ClassifyQualityTier(norm_score)) @@ doc

\* list.sort(key=rerank_score, reverse=True): a stable sort, so candidates
\* of equal score keep their order
RECURSIVE InsertByRerank(_, _)
InsertByRerank(sorted, doc) ==
    IF sorted = <<>> THEN <<doc>>
    ELSE IF Head(sorted).rerank_score >= doc.rerank_score
         THEN <<Head(sorted)>> \o InsertByRerank(Tail(sorted), doc)
         ELSE <<doc>> \o sorted

RECURSIVE SortByRerank(_)
SortByRerank(docs) ==
    IF docs = <<>> THEN <<>>
    ELSE InsertByRerank(SortByRerank(SubSeq(docs, 1, Len(docs) - 1)),
                        docs[Len(docs)])

SeqMin(xs) == CHOOSE x \in {xs[i] : i \in 1..Len(xs)} :
                  \A i \in 1..Len(xs) : x <= xs[i]
SeqMax(xs) == CHOOSE x \in {xs[i] : i \in 1..Len(xs)} :
                  \A i \in 1..Len(xs) : x >= xs[i]

\* the retrieval settings of src/src/config.py, the threshold in hundredths
RetrievalConfig == [top_k |-> 5, score_threshold |-> ScoreThreshold,
                    rerank |-> TRUE]

\* filtered_results after the loop that writes the scores into it, for the
\* raw scores the cross-encoder returned
ScoreBatch(filtered_results, rerank_scores) ==
    LET min_score == SeqMin(rerank_scores)
        max_score == SeqMax(rerank_scores)
    IN  [i \in 1..Len(filtered_results) |->
            RerankWrite(filtered_results[i], rerank_scores[i],
                NormalizedScore(rerank_scores[i], min_score, max_score))]

\* rerank_top_k = self.retrieval_config.get('rerank_top_k', top_k)
RerankTopK(retrieval_config, top_k) ==
    Get(retrieval_config, "rerank_top_k", top_k)

\* the reranking branch of retrieve_context for a non-empty filtered list
\* and the raw scores the cross-encoder returned for it
RerankResults(filtered_results, rerank_scores, top_k, retrieval_config) ==
    Prefix(SortByRerank(ScoreBatch(filtered_results, rerank_scores)),
           RerankTopK(retrieval_config, top_k))

\* the results of retrieve_context(query, top_k) for the results the
\* vector store returned and the raw scores of the cross-encoder
RetrieveContext(results, rerank_scores, top_k, reranker, retrieval_config) ==
    LET filtered_results == FilterByThreshold(results)
    IN  IF reranker /\ filtered_results # <<>>
        THEN RerankResults(filtered_results, rerank_scores, top_k,
                           retrieval_config)
        ELSE filtered_results

\* str(i) for 0 <= i <= 99
IntToStr(i) ==
    IF i < 10 THEN Char(Digits, i + 1)
    ELSE Char(Digits, (i \div 10) + 1) \o Char(Digits, (i % 10) + 1)

\* one entry of context_parts
ContextPart(doc, i) ==
    LET metadata == doc.metadata
        source_info ==
            "[Source " \o IntToStr(i) \o ": "
            \o Get(metadata, "source", "Unknown")
            \o (IF Get(metadata, "article_number", "") # ""
                THEN ", Article " \o metadata.article_number
                ELSE IF Get(metadata, "section_title", "") # ""
                THEN ", " \o metadata.section_title
                ELSE "")
            \o "]"
    IN  source_info \o "\n" \o doc.text \o "\n"

\* "\n---\n".join(context_parts)
RECURSIVE JoinParts(_, _, _)
JoinParts(docs, i, sep) ==
    IF i > Len(docs) THEN ""
    ELSE ContextPart(docs[i], i)
         \o (IF i < Len(docs) THEN sep ELSE "")
         \o JoinParts(docs, i + 1, sep)

\* format_context(retrieved_docs)
FormatContext(retrieved_docs) == JoinParts(retrieved_docs, 1, "\n---\n")

\* whether str.format(context=.., query=..) raises on a text: it does on a
\* brace that is neither doubled nor part of {context} or {query}
RECURSIVE FormatRaisesFrom(_, _)
FormatRaisesFrom(text, i) ==
    LET open == FindFrom(text, "{", i)
        close == FindFrom(text, "}", i)
    IN  IF open = 0 /\ close = 0 THEN FALSE
        ELSE IF open = 0 \/ (close # 0 /\ close < open)
             THEN IF StartsAt(text, "}}", close)
                  THEN FormatRaisesFrom(text, close + 2)
                  ELSE TRUE
        ELSE IF StartsAt(text, "{{", open)
             THEN FormatRaisesFrom(text, open + 2)
        ELSE IF StartsAt(text, "{context}", open)
             THEN FormatRaisesFrom(text, open + 9)
        ELSE IF StartsAt(text, "{query}", open)
             THEN FormatRaisesFrom(text, open + 7)
        ELSE TRUE

FormatRaises(text) == FormatRaisesFrom(text, 1)

\* the text str.format(context=.., query=..) returns when it does not raise
RECURSIVE FormatFrom(_, _, _, _)
FormatFrom(text, i, context_text, query) ==
    LET open == FindFrom(text, "{", i)
        close == FindFrom(text, "}", i)
    IN  IF open = 0 /\ close = 0 THEN Suffix(text, i)
        ELSE IF open = 0 \/ (close # 0 /\ close < open)
             THEN SubSeq(text, i, close)
                  \o FormatFrom(text, close + 2, context_text, query)
        ELSE IF StartsAt(text, "{{", open)
             THEN SubSeq(text, i, open)
                  \o FormatFrom(text, open + 2, context_text, query)
        ELSE IF StartsAt(text, "{context}", open)
             THEN SubSeq(text, i, open - 1) \o context_text
                  \o FormatFrom(text, open + 9, context_text, query)
        ELSE SubSeq(text, i, open - 1) \o query
             \o FormatFrom(text, open + 7, context_text, query)

\* custom_prompt_template.format(context=context, query=query)
UserPrompt(custom_prompt_template, context_text, query) ==
    FormatFrom(custom_prompt_template, 1, context_text, query)

GenerateResponseUncaught(custom_prompt_template, outcome) ==
    IF FormatRaises(custom_prompt_template) \/ outcome.kind = "raises"
    THEN [raised |-> TRUE, answer |-> "", error |-> TRUE]
    ELSE [raised |-> FALSE, answer |-> outcome.text, error |-> FALSE]

\* generate_response(query, context, custom_prompt_template=prompt) for an
\* outcome of ollama.chat: the prompt is formatted outside the try block,
\* an exception of the model is caught and becomes the answer text
GenerateResponse(custom_prompt_template, outcome) ==
    IF FormatRaises(custom_prompt_template)
    THEN [raised |-> TRUE, answer |-> "", error |-> TRUE]
    ELSE IF outcome.kind = "raises"
    THEN [raised |-> FALSE,
          answer |-> "Error generating response: " \o outcome.text,
          error |-> TRUE]
    ELSE [raised |-> FALSE, answer |-> outcome.text, error |-> FALSE]

-----------------------------------------------------------------------------
(***************************************************************************)
(* Risk Aggregator: GDPRViolationFinder._assess_overall_risk.              *)
(***************************************************************************)

\* severity_weights, in tenths
WeightCritical == 10
WeightHigh == 8
WeightMedium == 6
WeightLow == 4
\* the default of severity_weights.get, in tenths
WeightDefault == 5
\* min(len(violations), 10)
VolumeCap == 10
\* the 0.02 per violation, in hundredths
VolumeStep == 2
\* min(.., 10.0)
ScoreCeiling == 10
\* the risk level thresholds
LevelCritical == 8
LevelHigh == 6
LevelMedium == 4
LevelLow == 2
\* recommendations[:10]
MaxRecommendations == 10

SeverityWeightFlat(sev) == WeightDefault

\* severity_weights.get(v.severity, 0.5)
SeverityWeight(sev) ==
    CASE sev = "Critical" -> WeightCritical
      [] sev = "High" -> WeightHigh
      [] sev = "Medium" -> WeightMedium
      [] sev = "Low" -> WeightLow
      [] OTHER -> WeightDefault

\* the loop over the violations: total_weighted_score (in hundredths) and
\* total_weight (in tenths)
RECURSIVE WeightedTotals(_, _)
WeightedTotals(vs, acc) ==
    IF vs = <<>> THEN acc
    ELSE LET v == Head(vs)
             weight == SeverityWeight(v.severity)
         IN  WeightedTotals(Tail(vs),
                 [total_weighted_score |->
                      acc.total_weighted_score + v.risk_score * weight,
                  total_weight |-> acc.total_weight + weight])

VolumeMultiplierNone(n) == Rat(1, 1)

VolumeMultiplierUncapped(n) == Rat(100 + n * VolumeStep, 100)

\* 1.0 + (min(len(violations), 10) * 0.02)
VolumeMultiplier(n) == Rat(100 + Min(n, VolumeCap) * VolumeStep, 100)

ClampScoreMissing(x) == x

\* min(avg_risk_score * volume_multiplier, 10.0)
ClampScore(x) == RatMin(x, Rat(ScoreCeiling, 1))

\* avg_risk_score, a reduced fraction
OverallScore(vs) ==
    IF vs # <<>>
    THEN LET t == WeightedTotals(vs, [total_weighted_score |-> 0,
                                      total_weight |-> 0])
             avg == IF t.total_weight > 0
                    THEN Rat(t.total_weighted_score, 10 * t.total_weight)
                    ELSE Rat(0, 1)
         IN  ClampScore(RatMul(avg, VolumeMultiplier(Len(vs))))
    ELSE Rat(0, 1)

RiskLevelNoMinimal(score) ==
    IF score.num >= LevelCritical * score.den THEN "Critical"
    ELSE IF score.num >= LevelHigh * score.den THEN "High"
    ELSE IF score.num >= LevelMedium * score.den THEN "Medium"
    ELSE "Low"

RiskLevelStrict(score) ==
    IF score.num > LevelCritical * score.den THEN "Critical"
    ELSE IF score.num > LevelHigh * score.den THEN "High"
    ELSE IF score.num > LevelMedium * score.den THEN "Medium"
    ELSE IF score.num > LevelLow * score.den THEN "Low"
    ELSE "Minimal"

\* the if/elif chain on avg_risk_score
RiskLevel(score) ==
    IF RatGeqInt(score, LevelCritical) THEN "Critical"
    ELSE IF RatGeqInt(score, LevelHigh) THEN "High"
    ELSE IF RatGeqInt(score, LevelMedium) THEN "Medium"
    ELSE IF RatGeqInt(score, LevelLow) THEN "Low"
    ELSE "Minimal"

\* _identify_compliance_gaps: the set of "category: description" strings
IdentifyComplianceGaps(vs) ==
    {vs[i].category \o ": " \o vs[i].description : i \in 1..Len(vs)}

NonEmptyRecommendation(v) == v.recommendation # ""

\* [v.recommendation for v in violations if v.recommendation][:10]
Recommendations(vs) ==
    LET kept == SelectSeq(vs, NonEmptyRecommendation)
    IN  [i \in 1..Min(Len(kept), MaxRecommendations) |-> kept[i].recommendation]

\* the RiskAssessment _assess_overall_risk returns
RiskAssessment(vs) ==
    LET avg_risk_score == OverallScore(vs)
    IN  [overall_risk_level |-> RiskLevel(avg_risk_score),
         risk_score |-> avg_risk_score,
         violations |-> vs,
         compliance_gaps |-> IdentifyComplianceGaps(vs),
         recommendations |-> Recommendations(vs),
         legal_basis_analysis |->
             "See violations for detailed legal basis analysis",
         data_subject_rights_impact |->
             "See violations for data subject rights impact"]

-----------------------------------------------------------------------------
(***************************************************************************)
(* Remediation Mapper: RemediationEngine of                                *)
(* src/src/remediation/remediation_engine.py.  A template is modelled by   *)
(* the fields the guidance's priority, effort, cost and immediate actions  *)
(* are read from; a character outside ASCII is written <U+code point>.     *)
(***************************************************************************)

\* ' '.join(articles)
RECURSIVE JoinSpace(_)
JoinSpace(xs) ==
    IF xs = <<>> THEN ""
    ELSE IF Len(xs) = 1 THEN xs[1]
    ELSE xs[1] \o " " \o JoinSpace(Tail(xs))

ConsentTemplate ==
    [priority |-> "Critical",
     complexity |-> "Moderate",
     estimated_effort |-> "2-4 weeks",
     estimated_cost |-> "$10k-$30k",
     immediate_actions |->
        <<"<U+1F6A8> Stop all processing without valid consent immediately",
          "<U+1F4E7> Audit current data collection mechanisms",
          "<U+1F50D> Identify all data collected without consent",
          "<U+26A0><U+FE0F> Assess legal exposure and consult legal counsel">>]

DsrTemplate ==
    [priority |-> "High",
     complexity |-> "Complex",
     estimated_effort |-> "1-3 months",
     estimated_cost |-> "$20k-$50k",
     immediate_actions |->
        <<"<U+1F4CB> Create manual DSR request handling process immediately",
          "<U+1F4E7> Set up dedicated email for DSR requests (e.g., privacy@company.com)",
          "<U+23F0> Implement 30-day response deadline tracking",
          "<U+1F4CA> Audit all systems storing personal data">>]

ErasureTemplate ==
    [priority |-> "Critical",
     complexity |-> "Complex",
     estimated_effort |-> "2-6 weeks",
     estimated_cost |-> "$15k-$40k",
     immediate_actions |->
        <<"<U+1F6A8> Create emergency data deletion process (manual if needed)",
          "<U+1F4E7> Set up privacy@company email for deletion requests",
          "<U+1F50D> Audit all systems storing personal data",
          "<U+23F0> Track 30-day deadline for each request">>]

ObjectionTemplate ==
    [priority |-> "High",
     complexity |-> "Moderate",
     estimated_effort |-> "1-3 weeks",
     estimated_cost |-> "$5k-$20k",
     immediate_actions |->
        <<"<U+1F4E7> Add unsubscribe link to ALL marketing emails immediately",
          "<U+1F6A8> Stop processing for objected users",
          "<U+1F4CB> Create manual opt-out tracking system",
          "<U+1F50D> Audit all marketing channels">>]

AccessTemplate ==
    [priority |-> "High",
     complexity |-> "Moderate",
     estimated_effort |-> "2-4 weeks",
     estimated_cost |-> "$10k-$25k",
     immediate_actions |->
        <<"<U+1F4E7> Create manual data export process",
          "<U+1F4DD> Set up access request email",
          "<U+23F0> Track 30-day response deadline",
          "<U+1F50D> Audit what data you hold">>]

PortabilityTemplate ==
    [priority |-> "Medium",
     complexity |-> "Moderate",
     estimated_effort |-> "2-4 weeks",
     estimated_cost |-> "$10k-$25k",
     immediate_actions |->
        <<"<U+1F4E6> Create manual export process in portable format",
          "<U+1F4DD> Document current data formats">>]

BreachTemplate ==
    [priority |-> "Critical",
     complexity |-> "Major",
     estimated_effort |-> "Immediate + ongoing",
     estimated_cost |-> "$50k-$200k+",
     immediate_actions |->
        <<"<U+1F6A8> STOP THE BREACH - Contain immediately",
          "<U+1F4DE> Notify supervisory authority within 72 hours",
          "<U+1F4E7> Notify affected individuals if high risk",
          "<U+1F50D> Preserve evidence for investigation",
          "<U+2696><U+FE0F> Engage legal counsel and cyber insurance",
          "<U+1F4CA> Begin incident documentation">>]

TransparencyTemplate ==
    [priority |-> "High",
     complexity |-> "Moderate",
     estimated_effort |-> "3-6 weeks",
     estimated_cost |-> "$5k-$20k",
     immediate_actions |->
        <<"<U+1F4DD> Create basic privacy notice immediately",
          "<U+1F50D> Audit all data collection points",
          "<U+1F4E7> Identify all communications needing privacy info",
          "<U+26A0><U+FE0F> Add temporary privacy notices to high-risk areas">>]

\* _get_generic_template(category)
GenericTemplate(category) ==
    [category |-> category,
     articles |-> <<>>,
     priority |-> "High",
     complexity |-> "Moderate",
     estimated_effort |-> "2-4 weeks",
     estimated_cost |-> "$10k-$30k",
     immediate_actions |->
        <<"<U+1F50D> Conduct detailed compliance assessment",
          "<U+2696><U+FE0F> Consult with legal counsel",
          "<U+1F4CA> Audit affected systems and processes",
          "<U+1F4DD> Document current state and gaps">>]

\* _load_remediation_templates()
RemediationTemplates ==
    ("consent_violation" :> ConsentTemplate)
    @@ ("data_subject_rights" :> DsrTemplate)
    @@ ("erasure_rights" :> ErasureTemplate)
    @@ ("objection_rights" :> ObjectionTemplate)
    @@ ("access_rights" :> AccessTemplate)
    @@ ("portability_rights" :> PortabilityTemplate)
    @@ ("data_breach" :> BreachTemplate)
    @@ ("transparency" :> TransparencyTemplate)
    @@ ("data_transfer" :> GenericTemplate("International Data Transfer"))
    @@ ("security" :> GenericTemplate("Data Security"))
    @@ ("accountability" :> GenericTemplate("Accountability"))
    @@ ("legal_basis" :> GenericTemplate("Legal Basis"))
    @@ ("data_retention" :> GenericTemplate("Data Retention"))
    @@ ("dpo_requirement" :> GenericTemplate("Data Protection Officer"))

MapToTemplateCategoryOnly(category, arts) ==
    LET category_lower == ToLower(category)
    IN  IF Contains(category_lower, "consent") THEN "consent_violation"
        ELSE IF Contains(category_lower, "erasure")
             \/ Contains(category_lower, "deletion") THEN "erasure_rights"
        ELSE IF Contains(category_lower, "objection")
             \/ Contains(category_lower, "marketing") THEN "objection_rights"
        ELSE IF Contains(category_lower, "access") THEN "access_rights"
        ELSE IF Contains(category_lower, "breach") THEN "data_breach"
        ELSE IF Contains(category_lower, "transparency")
             \/ Contains(category_lower, "information") THEN "transparency"
        ELSE IF Contains(category_lower, "transfer") THEN "data_transfer"
        ELSE IF Contains(category_lower, "security") THEN "security"
        ELSE "data_subject_rights"

\* _map_to_template(category, arts): the article rules test for a
\* substring of the joined references, the category rules for a substring of
\* the lower-cased category
MapToTemplate(category, arts) ==
    LET category_lower == ToLower(category)
        articles_str == JoinSpace(arts)
    IN  IF Contains(articles_str, "Article 17") THEN "erasure_rights"
        ELSE IF Contains(articles_str, "Article 21") THEN "objection_rights"
        ELSE IF Contains(articles_str, "Article 15") THEN "access_rights"
        ELSE IF Contains(articles_str, "Article 20") THEN "portability_rights"
        ELSE IF Contains(articles_str, "Article 6")
             \/ Contains(articles_str, "Article 7") THEN "consent_violation"
        ELSE IF Contains(articles_str, "Article 33")
             \/ Contains(articles_str, "Article 34") THEN "data_breach"
        ELSE IF Contains(articles_str, "Article 13")
             \/ Contains(articles_str, "Article 14") THEN "transparency"
        ELSE IF Contains(articles_str, "Article 32") THEN "security"
        ELSE IF Contains(category_lower, "consent") THEN "consent_violation"
        ELSE IF Contains(category_lower, "erasure")
             \/ Contains(category_lower, "deletion") THEN "erasure_rights"
        ELSE IF Contains(category_lower, "objection")
             \/ Contains(category_lower, "marketing") THEN "objection_rights"
        ELSE IF Contains(category_lower, "access") THEN "access_rights"
        ELSE IF Contains(category_lower, "breach") THEN "data_breach"
        ELSE IF Contains(category_lower, "transparency")
             \/ Contains(category_lower, "information") THEN "transparency"
        ELSE IF Contains(category_lower, "transfer") THEN "data_transfer"
        ELSE IF Contains(category_lower, "security") THEN "security"
        ELSE "data_subject_rights"

\* the priority _customize_remediation computes from the severity
SeverityPriority(severity) ==
    IF ToLower(severity) = "critical" THEN "Critical"
    ELSE IF ToLower(severity) = "high" THEN "High"
    ELSE IF ToLower(severity) = "medium" THEN "Medium"
    ELSE "Low"

\* _customize_remediation(template, severity, context): the computed
\* priority is only the default of template.get('priority', priority)
CustomizeRemediation(template, severity) ==
    [violation_category |-> Get(template, "category", "GDPR Violation"),
     affected_articles |-> Get(template, "articles", <<>>),
     priority |-> Get(template, "priority", SeverityPriority(severity)),
     complexity |-> Get(template, "complexity", "Moderate"),
     estimated_effort |-> Get(template, "estimated_effort", "2-4 weeks"),
     immediate_actions |-> Get(template, "immediate_actions", <<>>),
     estimated_cost_range |-> Get(template, "estimated_cost", "Variable")]

\* _generate_generic_remediation(category, arts, severity)
GenerateGenericRemediation(category, arts, severity) ==
    [violation_category |-> category,
     affected_articles |-> arts,
     priority |-> "High",
     complexity |-> "Moderate",
     estimated_effort |-> "2-4 weeks",
     immediate_actions |->
        <<"<U+1F50D> Conduct detailed compliance assessment",
          "<U+2696><U+FE0F> Consult with legal counsel",
          "<U+1F4CA> Audit affected systems and processes",
          "<U+1F4DD> Document current state and gaps">>,
     estimated_cost_range |-> "Variable"]

\* generate_remediation(violation_category, articles, severity, context):
\* the template key chosen, whether the generic guidance was needed, and the
\* guidance returned
GenerateRemediation(category, arts, severity) ==
    LET template_key == MapToTemplate(category, arts)
    IN  IF template_key \in DOMAIN RemediationTemplates
        THEN [template_key |-> template_key, generic |-> FALSE,
              guidance |-> CustomizeRemediation(
                               RemediationTemplates[template_key], severity)]
        ELSE [template_key |-> template_key, generic |-> TRUE,
              guidance |-> GenerateGenericRemediation(
                               category, arts, severity)]

-----------------------------------------------------------------------------
(***************************************************************************)
(* The Risk Aggregator called on a violation list.                         *)
(***************************************************************************)

\* the longest arbitrary prefix of an input list
MaxMixed == 2
\* the most copies of one violation that follow the prefix
MaxUniform == 11

RiskSeverities == {"Critical", "High", "Medium", "Low", "Informational"}

RiskViolation(sev, risk) ==
    GDPRViolation("Consent", sev, <<"6">>, "No valid consent", "", "", risk,
                  "", None, None)

\* violations as the parser scores them, and violations with other risk
\* scores of [0, 10]
RiskKinds ==
    {RiskViolation(sev, SeverityScore(sev)) : sev \in RiskSeverities}
    \cup {RiskViolation("Critical", 100), RiskViolation("Low", 0),
          RiskViolation("Informational", 100), RiskViolation("High", 5)}

RiskInputs ==
    {p \o [i \in 1..k |-> v] :
        p \in UNION {[1..n -> RiskKinds] : n \in 0..MaxMixed},
        k \in 0..MaxUniform, v \in RiskKinds}

IdleParser == response = None /\ parsed = None
IdleValidator == articles = None /\ context = None /\ cited = None
IdleCoordinator ==
    scenario = None /\ all_results = None /\ unique_results = None
IdleMapper == rem = None
IdleRag == rag = None
IdleAnalysis == req = None
IdleReranker == batch = None
IdleBlock == blk = None

RiskInit ==
    /\ pc = "risk_call"
    /\ violations \in RiskInputs
    /\ assessment = None
    /\ IdleParser /\ IdleValidator /\ IdleCoordinator
    /\ IdleMapper
    /\ IdleRag
    /\ IdleAnalysis
    /\ IdleReranker
    /\ IdleBlock

\* _assess_overall_risk(scenario, violations, context)
AssessOverallRisk ==
    /\ pc = "risk_call"
    /\ assessment' = RiskAssessment(violations)
    /\ pc' = "risk_done"
    /\ UNCHANGED <<violations, response, parsed, articles, context, cited,
                   scenario, all_results, unique_results,
                   rem,
                   rag,
                   req,
                   batch,
                   blk>>

RiskNext == AssessOverallRisk

SpecRisk == RiskInit /\ [][RiskNext]_vars

-----------------------------------------------------------------------------
(***************************************************************************)
(* The Violation Parser called on a model output.                          *)
(***************************************************************************)

\* the most copies of one block in a model output
MaxRepeat == 11

\* model outputs without the block marker
UnmarkedResponses ==
    {"",
     "No issues found.",
     "VIOLATION",
     "VIOLATIONS: none",
     "VIOLATION\nCategory: Consent\nSeverity: High\n",
     "violation 1\nCategory: Consent\n"}

\* what may follow a block marker
BodyConsent ==
    "1:\nCategory: Consent\nSeverity: High\nArticles: 6, 7\nProblematic Quote: \"we sell data\"\nWhy: no consent\n"
BodyNoCategory == "2\nSeverity: Critical\nno category here\n"
BodySecurity == "3\nCategory: Security\nSeverity: critical\nArticle: 32\n"
BodyMarkerInside == "4\nCategory: Data VIOLATION of rights\nSeverity: Low\n"
BodyTransparency ==
    "5\nCategory: Transparency\nSeverity:\nArticles: 13\nWhy this violates Article 13: unclear notice\n"
BodyEmpty == ""
BodyErasure == "7\n**Category**: Erasure\n**Severity**: **High**\n"
BodyEmptyCategory == "8\nCategory:\nSeverity: Medium\n"
BodyRetention == "9\nCategory: Retention\nSeverity: High\nArticles: 5\n"

BlockBodies ==
    {BodyConsent, BodyNoCategory, BodySecurity, BodyMarkerInside,
     BodyTransparency, BodyEmpty, BodyErasure, BodyEmptyCategory,
     BodyRetention}

ResponseHeads == {"", "Analysis:\n"}

RECURSIVE Repeat(_, _)
Repeat(t, k) == IF k = 0 THEN "" ELSE t \o Repeat(t, k - 1)

\* a head, then k copies of one block with one more block before or after
MarkedResponses ==
    {h \o Repeat(BlockMarker \o a, k) \o q :
        h \in ResponseHeads, a \in BlockBodies, k \in 0..MaxRepeat,
        q \in {""} \cup {BlockMarker \o b : b \in BlockBodies}}
    \cup
    {h \o BlockMarker \o b \o Repeat(BlockMarker \o a, k) :
        h \in ResponseHeads, a \in BlockBodies, k \in 0..MaxRepeat,
        b \in BlockBodies}

ParserInputs == UnmarkedResponses \cup MarkedResponses

IdleAggregator == violations = None /\ assessment = None

ParseInit ==
    /\ pc = "parse_call"
    /\ response \in ParserInputs
    /\ parsed = None
    /\ IdleAggregator /\ IdleValidator /\ IdleCoordinator
    /\ IdleMapper
    /\ IdleRag
    /\ IdleAnalysis
    /\ IdleReranker
    /\ IdleBlock

\* _parse_violations_from_response(response, context)
ParseViolations ==
    /\ pc = "parse_call"
    /\ parsed' = ParseViolationsFromResponse(response)
    /\ pc' = "parse_done"
    /\ UNCHANGED <<violations, assessment, response, articles, context, cited,
                   scenario, all_results, unique_results,
                   rem,
                   rag,
                   req,
                   batch,
                   blk>>

ParseNext == ParseViolations

SpecParse == ParseInit /\ [][ParseNext]_vars

-----------------------------------------------------------------------------
(***************************************************************************)
(* The Citation Validator called on a violation's references and a         *)
(* candidate list.                                                         *)
(***************************************************************************)

\* the longest candidate list
MaxContext == 2

\* a candidate as retrieve_context returns it after reranking
Reranked(text, id, r) ==
    [text |-> text,
     metadata |-> [chunk_id |-> id, section_title |-> "Chapter II"],
     score |-> 80, rerank_score |-> r, combined_score |-> r,
     quality_tier |-> ClassifyQualityTier(r)]

\* a candidate as retrieve_context returns it with reranking disabled
Unranked(text, id, sc) ==
    [text |-> text, metadata |-> [chunk_id |-> id], score |-> sc]

TextArticle6 == "Article 6 Lawfulness. Processing is lawful only if\nconsent"
TextArticle60 == "Article 60 Cooperation between authorities"
TextLowercase == "see article  6(1) for consent"
TextRecital == "Recital 6 explains 6 things"
TextBoth == "Recital 40 and Article 6 both"
TextTwoArticles == "Article 60 first. Article 6 second"
TextNoBoundary == "Particle 6 and Article 6a"
TextLineBreak == "Article\n7 Conditions for consent"

CandidatePool ==
    {Reranked(TextArticle6, "a6", 100), Reranked(TextArticle6, "a6", 10),
     Unranked(TextArticle6, "a6", 85), Reranked(TextArticle6, "a6", 0),
     Reranked(TextArticle60, "a60", 100),
     Reranked(TextLowercase, "low", 25), Reranked(TextLowercase, "low", 50),
     Reranked(TextRecital, "r6", 100),
     Reranked(TextBoth, "r40", 38),
     Reranked(TextTwoArticles, "two", 100), Reranked(TextTwoArticles, "two", 25),
     Reranked(TextNoBoundary, "nb", 100),
     Reranked(TextLineBreak, "a7", 30)}

CitationContexts == UNION {[1..n -> CandidatePool] : n \in 0..MaxContext}

ReferenceLists ==
    {<<>>, <<"6">>, <<"GDPR">>, <<"Article 6(1)(a)", "7">>,
     <<"60", "GDPR", "6", "7">>, <<"Art. 7", "6", "60">>}

CiteInit ==
    /\ pc = "cite_call"
    /\ articles \in ReferenceLists
    /\ context \in CitationContexts
    /\ cited = None
    /\ IdleAggregator /\ IdleParser /\ IdleCoordinator
    /\ IdleMapper
    /\ IdleRag
    /\ IdleAnalysis
    /\ IdleReranker
    /\ IdleBlock

\* _extract_citations(violation_data, context)
ValidateCitations ==
    /\ pc = "cite_call"
    /\ cited' = ExtractCitations(articles, context)
    /\ pc' = "cite_done"
    /\ UNCHANGED <<violations, assessment, response, parsed, articles, context,
                   scenario, all_results, unique_results,
                   rem,
                   rag,
                   req,
                   batch,
                   blk>>

CiteNext == ValidateCitations

SpecCite == CiteInit /\ [][CiteNext]_vars

-----------------------------------------------------------------------------
(***************************************************************************)
(* The Retrieval Coordinator called on a scenario; the Candidate Store's   *)
(* answers are any of a family of ranked lists over a fixed set of chunks. *)
(***************************************************************************)

\* the number of chunks in the Candidate Store
NumChunks == 12

Scenarios ==
    {"We email customers without consent",
     "Breach of Article 6 by the shop",
     "A particle 9 detector logs visitors",
     "article 6 and ARTICLE  17 ignored",
     "Article 5, article 6, article 13, article 32"}

ChunkTexts ==
    <<"Article 5 sets out the principles",
      "Recital 39 on transparency",
      "Recital 40 refers to Article 6",
      "Guidelines on valid consent">>

ChunkName(i) == "c" \o Char(Digits, (i \div 10) + 1) \o Char(Digits, (i % 10) + 1)

\* chunk i as the strategy call number `call` returns it: chunk 5 carries
\* its id under 'chunk', chunk 7 carries none, and the rerank score of a
\* chunk differs from call to call
StoreResult(i, call) ==
    LET text == ChunkTexts[(i % 4) + 1]
        score == 100 - 7 * call
    IN  IF i = 5
        THEN [text |-> text, chunk |-> [chunk_id |-> ChunkName(i)],
              metadata |-> [source |-> "GDPR"], score |-> 80,
              rerank_score |-> score,
              quality_tier |-> ClassifyQualityTier(score)]
        ELSE IF i = 7
        THEN [text |-> text, metadata |-> [source |-> "GDPR"], score |-> 80,
              rerank_score |-> score,
              quality_tier |-> ClassifyQualityTier(score)]
        ELSE [text |-> text,
              metadata |-> [source |-> "GDPR", chunk_id |-> ChunkName(i)],
              score |-> 80, rerank_score |-> score,
              quality_tier |-> ClassifyQualityTier(score)]

\* n chunks in the store's order, from chunk `first` on
Window(first, n, call) ==
    [k \in 1..n |-> StoreResult(((first + k - 2) % NumChunks) + 1, call)]

\* what retrieve_context may return for a call with top_k
StoreAnswers(top_k, call) ==
    {Window(first, n, call) :
        first \in {1, 6}, n \in {0, 3, Min(top_k, NumChunks)}}

\* the concatenations of one answer for each query from the k-th on
RECURSIVE AllResults(_, _)
AllResults(queries, k) ==
    IF k > Len(queries) THEN {<<>>}
    ELSE {w \o rest : w \in StoreAnswers(queries[k].top_k, k),
                      rest \in AllResults(queries, k + 1)}

RetrieveInit ==
    /\ pc = "retrieve_call"
    /\ scenario \in Scenarios
    /\ all_results = None
    /\ unique_results = None
    /\ IdleAggregator /\ IdleParser /\ IdleValidator
    /\ IdleMapper
    /\ IdleRag
    /\ IdleAnalysis
    /\ IdleReranker
    /\ IdleBlock

\* _retrieve_relevant_regulations(scenario, context_type)
RetrieveRelevantRegulations ==
    /\ pc = "retrieve_call"
    /\ \E results \in AllResults(StrategyQueries(scenario), 1) :
           /\ all_results' = results
           /\ unique_results' = MergeResults(results)
    /\ pc' = "retrieve_done"
    /\ UNCHANGED <<violations, assessment, response, parsed, articles, context,
                   cited, scenario,
                   rem,
                   rag,
                   req,
                   batch,
                   blk>>

RetrieveNext == RetrieveRelevantRegulations

SpecRetrieve == RetrieveInit /\ [][RetrieveNext]_vars

-----------------------------------------------------------------------------
(***************************************************************************)
(* The Remediation Mapper called once or twice in a row, as                *)
(* scripts/test_remediation.py calls it.                                   *)
(***************************************************************************)

MapperCategories ==
    {"Data Subject Rights", "Consent Management", "Marketing and erasure",
     "Unlawful access after a breach", "Information Security",
     "International transfer", "DELETION request", "Accountability", ""}

MapperArticles ==
    {<<>>, <<"Article 17">>, <<"Article 21">>, <<"Article 21", "Article 17">>,
     <<"Article 15">>, <<"Article 20", "Article 6">>, <<"Article 7(3)">>,
     <<"Article 34", "Article 13">>, <<"Article 14", "Article 32">>,
     <<"Article 32">>, <<"Article", "17">>, <<"Article", "6", "17">>,
     <<"17">>, <<"Article 60">>, <<"article 17">>, <<"Article 5">>,
     <<"Article 77">>, <<"Article 321">>}

MapperSeverities ==
    {"Critical", "High", "Medium", "Low", "critical", "HIGH",
     "Informational", ""}

RemediationCall(category, arts, severity) ==
    [violation_category |-> category, articles |-> arts, severity |-> severity]

\* one call, or a call followed by a call for the same category with one of
\* the two data-subject-rights references
MapperCalls ==
    LET first == {RemediationCall(c, a, s) :
                      c \in MapperCategories, a \in MapperArticles,
                      s \in MapperSeverities}
    IN  {<<f>> : f \in first}
        \cup {<<f, RemediationCall(f.violation_category, a, "High")>> :
                  f \in first, a \in {<<"Article 17">>, <<"Article 21">>}}

RemedyInit ==
    /\ pc = "remedy_call"
    /\ rem \in {[calls |-> cs, returned |-> <<>>] : cs \in MapperCalls}
    /\ IdleAggregator /\ IdleParser /\ IdleValidator /\ IdleCoordinator
    /\ IdleRag
    /\ IdleAnalysis
    /\ IdleReranker
    /\ IdleBlock

\* engine.generate_remediation(...) for the next call
GenerateRemediationCall ==
    /\ pc = "remedy_call"
    /\ LET call == rem.calls[Len(rem.returned) + 1]
           result == GenerateRemediation(call.violation_category,
                                         call.articles, call.severity)
       IN  /\ rem' = [rem EXCEPT !.returned = Append(@, result)]
           /\ pc' = IF Len(rem.returned) + 1 = Len(rem.calls)
                    THEN "remedy_done" ELSE "remedy_call"
    /\ UNCHANGED <<violations, assessment, response, parsed, articles, context,
                   cited, scenario, all_results, unique_results,
                   rag,
                   req,
                   batch,
                   blk>>

RemedyNext == GenerateRemediationCall

SpecRemedy == RemedyInit /\ [][RemedyNext]_vars

-----------------------------------------------------------------------------
(***************************************************************************)
(* Analysis requests: GDPRViolationFinder.analyze_scenario run by two      *)
(* requests at once on one finder, as the threaded server of               *)
(* web_ui/app.py runs api_analyze.  A request holds its locals in req[r];  *)
(* the finder's candidate index is shared in rag.  The vector store, the   *)
(* cross-encoder, the generation model and the remediation engine are      *)
(* outside the code modelled here: each is a fixed function of what the    *)
(* code hands it and of a seed that is part of the request.                *)
(***************************************************************************)

Requests == {1, 2}

\* self.prompts.get('violation_finder_prompt', ''), a configured text
ViolationFinderPrompt ==
    "Context:\n{context}\n\nScenario:\n{query}\n\nList each violation as VIOLATION n.\n"

\* chunk i of the loaded index
IndexChunk(i) ==
    [text |-> ChunkTexts[(i % 4) + 1],
     metadata |->
        IF i % 4 = 0
        THEN [source |-> "GDPR", chunk_id |-> ChunkName(i),
              article_number |-> "5"]
        ELSE IF i % 4 = 1
        THEN [source |-> "GDPR", chunk_id |-> ChunkName(i),
              section_title |-> "Recitals"]
        ELSE [source |-> "EDPB", chunk_id |-> ChunkName(i)]]

\* the number of chunks of the loaded index
IndexSize == 6

CandidateIndex == [i \in 1..IndexSize |-> IndexChunk(i)]

\* the similarity of the k-th nearest chunk, in hundredths
SimilarityTop == 95
SimilarityStep == 6

\* vector_store.search(query, top_k=retrieve_k): the k nearest chunks with
\* their similarity, nearest first
VectorSearch(index, query, k) ==
    LET n == Min(k, Len(index))
        first == (Len(query) % Len(index)) + 1
    IN  [j \in 1..n |->
            LET chunk == index[((first + j - 2) % Len(index)) + 1]
            IN  [text |-> chunk.text, metadata |-> chunk.metadata,
                 score |-> SimilarityTop - SimilarityStep * (j - 1)]]

\* the raw scores a cross-encoder may give a pair
RawScores == <<-20, -15, -10>>

\* self.reranker.predict on one [query, text] pair
CrossEncoder(query, text, seed) ==
    RawScores[((Len(query) + (Len(text) % 5) + seed) % Len(RawScores)) + 1]

\* pairs = [[query, doc['text'][:512]] for doc in filtered_results] and the
\* scores predicted for them
RerankScores(query, filtered_results, seed) ==
    [i \in 1..Len(filtered_results) |->
        CrossEncoder(query, Prefix(filtered_results[i].text, RerankTextLimit),
                     seed)]

IndexAfterRerankShared(index, docs) ==
    [i \in 1..Len(index) |->
        IF \E j \in 1..Len(docs) :
               docs[j].metadata.chunk_id = index[i].metadata.chunk_id
        THEN ("rerank_score" :> DegenerateScore) @@ index[i]
        ELSE index[i]]

\* the loaded index after the rerank loop has written its four fields into
\* the records the store returned: the store hands out records of its own
IndexAfterRerank(index, docs) == index

\* what ollama.chat may do
ModelOutcomes ==
    <<[kind |-> "returns",
       text |-> "Findings:\n" \o BlockMarker \o BodyConsent
                \o BlockMarker \o BodyRetention],
      [kind |-> "raises", text |-> "connection refused"],
      [kind |-> "returns", text |-> ""],
      [kind |-> "returns", text |-> "The scenario appears to viol"],
      [kind |-> "returns", text |-> BlockMarker \o BodyNoCategory],
      [kind |-> "returns",
       text |-> BlockMarker \o BodyErasure \o BlockMarker \o BodyNoCategory
                \o BlockMarker \o BodySecurity]>>

\* ollama.chat on the user prompt
LanguageModel(user_prompt, seed) ==
    ModelOutcomes[((Len(user_prompt) + seed) % Len(ModelOutcomes)) + 1]

\* self.remediation_engine.generate_remediation for the i-th violation: the
\* guidance, or an exception for the violations in `failing`
DynamicRemediation(v, i, failing) ==
    IF i \in failing THEN [raises |-> TRUE]
    ELSE [raises |-> FALSE,
          guidance |-> GenerateRemediation(v.category, v.articles,
                                           v.severity).guidance]

\* retrieve_context(query, top_k) as one call
RetrieveForQuery(index, reranker, query, seed) ==
    LET results == VectorSearch(index, query.query,
                                RetrieveK(query.top_k, reranker))
    IN  RetrieveContext(results,
            RerankScores(query.query, FilterByThreshold(results), seed),
            query.top_k, reranker, RetrievalConfig)

\* all_results after the queries from the k-th on
RECURSIVE RetrieveAll(_, _, _, _, _)
RetrieveAll(index, reranker, queries, k, seed) ==
    IF k > Len(queries) THEN <<>>
    ELSE RetrieveForQuery(index, reranker, queries[k], seed)
         \o RetrieveAll(index, reranker, queries, k + 1, seed)

\* _identify_violations up to the answer of generate_response
GenerateAnswer(scen, relevant_context, seed) ==
    LET context_text == FormatContext(relevant_context)
        prompt == Replace(Replace(ViolationFinderPrompt,
                                  "{context}", context_text),
                          "{query}", scen)
        called == ~FormatRaises(prompt)
        outcome == LanguageModel(UserPrompt(prompt, context_text, scen), seed)
    IN  [context_text |-> context_text,
         response |-> IF called THEN GenerateResponse(prompt, outcome)
                      ELSE GenerateResponse(prompt, [kind |-> "uncalled"]),
         model_called |-> called,
         model_raised |-> called /\ outcome.kind = "raises"]

RemediationStepUncaught(vs, i, remediation) ==
    IF remediation.raises
    THEN [raised |-> TRUE, violations |-> vs]
    ELSE [raised |-> FALSE,
          violations |-> [vs EXCEPT ![i].remediation_guidance =
                                        remediation.guidance]]

\* one pass of the loop over violations: the try block and its handler
RemediationStep(vs, i, remediation) ==
    IF remediation.raises
    THEN [raised |-> FALSE, violations |-> vs]
    ELSE [raised |-> FALSE,
          violations |-> [vs EXCEPT ![i].remediation_guidance =
                                        remediation.guidance]]

\* the loop over violations from the i-th on
RECURSIVE RemediateFrom(_, _, _)
RemediateFrom(vs, i, failing) ==
    IF i > Len(vs) THEN [raised |-> FALSE, violations |-> vs]
    ELSE LET step == RemediationStep(vs, i,
                         DynamicRemediation(vs[i], i, failing))
         IN  IF step.raised THEN step
             ELSE RemediateFrom(step.violations, i + 1, failing)

\* analyze_scenario(scenario) run alone on a finder with the given index:
\* whether it raised, and the assessment it returned
AnalyzeScenario(index, reranker, scen, seed, failing) ==
    LET relevant_context ==
            MergeResults(RetrieveAll(index, reranker, StrategyQueries(scen),
                                     1, seed))
        generated == GenerateAnswer(scen, relevant_context, seed)
    IN  IF generated.response.raised
        THEN [raised |-> TRUE, assessment |-> <<>>]
        ELSE LET remediated ==
                     RemediateFrom(
                         ParseViolationsFromResponse(
                             generated.response.answer),
                         1, failing)
             IN  IF remediated.raised
                 THEN [raised |-> TRUE, assessment |-> <<>>]
                 ELSE [raised |-> FALSE,
                       assessment |-> <<RiskAssessment(remediated.violations)>>]

\* the scenarios submitted
AnalysisScenarios ==
    {"We email customers without consent",
     "Breach of Article 6 by the shop",
     "Send {name} offers without asking"}

Seeds == 0..(Len(ModelOutcomes) - 1)

\* the violations whose remediation fails
FailingSets == {{}, {1}}

\* a request at the entry of analyze_scenario
NewRequest(scen, seed, failing) ==
    [pc |-> "search", scenario |-> scen, seed |-> seed, failing |-> failing,
     queries |-> StrategyQueries(scen), q |-> 1,
     filtered |-> <<>>, all_results |-> <<>>, relevant_context |-> <<>>,
     context_text |-> "", model_called |-> FALSE, model_raised |-> FALSE,
     answer |-> "", parsed |-> <<>>, violations |-> <<>>, next |-> 1,
     remediated |-> {}, assessment |-> <<>>, trace |-> <<>>]

AnalyzeInit ==
    /\ pc = "analyze"
    /\ rag \in {[index |-> CandidateIndex, reranker |-> b] : b \in BOOLEAN}
    /\ req \in {(1 :> NewRequest(s, seed, f))
                @@ (2 :> NewRequest("Breach of Article 6 by the shop", 1, {}))
                : s \in AnalysisScenarios, seed \in Seeds, f \in FailingSets}
    /\ IdleAggregator /\ IdleParser /\ IdleValidator /\ IdleCoordinator
    /\ IdleMapper
    /\ IdleReranker
    /\ IdleBlock

Idle == UNCHANGED <<pc, violations, assessment, response, parsed, articles,
                    context, cited, scenario, all_results, unique_results,
                    rem, batch,
                   blk>>

\* after a query: the next query, or the deduplication
AfterQuery(me) == IF me.q = Len(me.queries) THEN "merge" ELSE "search"

\* retrieve_context up to the threshold filter
Search(r) ==
    /\ req[r].pc = "search"
    /\ LET me == req[r]
           query == me.queries[me.q]
           filtered_results ==
               FilterByThreshold(
                   VectorSearch(rag.index, query.query,
                                RetrieveK(query.top_k, rag.reranker)))
       IN  IF rag.reranker /\ filtered_results # <<>>
           THEN req' = [req EXCEPT ![r].filtered = filtered_results,
                                   ![r].pc = "rerank",
                                   ![r].trace = Append(@, "retrieval")]
           ELSE req' = [req EXCEPT ![r].all_results = @ \o filtered_results,
                                   ![r].q = @ + 1,
                                   ![r].pc = AfterQuery(me),
                                   ![r].trace = Append(@, "retrieval")]
    /\ UNCHANGED rag
    /\ Idle

\* the reranking branch of retrieve_context and all_results.extend
Rerank(r) ==
    /\ req[r].pc = "rerank"
    /\ LET me == req[r]
           query == me.queries[me.q]
           reranked ==
               RerankResults(me.filtered,
                             RerankScores(query.query, me.filtered, me.seed),
                             query.top_k, RetrievalConfig)
       IN  /\ req' = [req EXCEPT ![r].all_results = @ \o reranked,
                                 ![r].filtered = <<>>,
                                 ![r].q = @ + 1,
                                 ![r].pc = AfterQuery(me),
                                 ![r].trace = Append(@, "rerank")]
           /\ rag' = [rag EXCEPT !.index = IndexAfterRerank(@, reranked)]
    /\ Idle

\* the two deduplication passes of _retrieve_relevant_regulations
Deduplicate(r) ==
    /\ req[r].pc = "merge"
    /\ req' = [req EXCEPT ![r].relevant_context = MergeResults(req[r].all_results),
                          ![r].pc = "generate"]
    /\ UNCHANGED rag
    /\ Idle

\* format_context, the prompt and generate_response
Generate(r) ==
    /\ req[r].pc = "generate"
    /\ LET me == req[r]
           generated == GenerateAnswer(me.scenario, me.relevant_context,
                                       me.seed)
       IN  req' = [req EXCEPT
                      ![r].context_text = generated.context_text,
                      ![r].model_called = generated.model_called,
                      ![r].model_raised = generated.model_raised,
                      ![r].answer = generated.response.answer,
                      ![r].pc = IF generated.response.raised THEN "raised"
                                ELSE "parse",
                      ![r].trace = Append(@, "generation")]
    /\ UNCHANGED rag
    /\ Idle

\* _parse_violations_from_response(response['answer'], context)
Parse(r) ==
    /\ req[r].pc = "parse"
    /\ LET vs == ParseViolationsFromResponse(req[r].answer)
       IN  req' = [req EXCEPT ![r].parsed = vs,
                              ![r].violations = vs,
                              ![r].pc = "remediate",
                              ![r].trace = Append(@, "parse")]
    /\ UNCHANGED rag
    /\ Idle

\* one pass of the remediation loop
Remediate(r) ==
    /\ req[r].pc = "remediate"
    /\ req[r].next <= Len(req[r].violations)
    /\ LET me == req[r]
           remediation == DynamicRemediation(me.violations[me.next], me.next,
                                             me.failing)
           step == RemediationStep(me.violations, me.next, remediation)
       IN  req' = [req EXCEPT
                      ![r].violations = step.violations,
                      ![r].remediated =
                          IF remediation.raises THEN @ ELSE @ \cup {me.next},
                      ![r].next = @ + 1,
                      ![r].pc = IF step.raised THEN "raised" ELSE "remediate",
                      ![r].trace = Append(@, "remediation")]
    /\ UNCHANGED rag
    /\ Idle

\* _assess_overall_risk(scenario, violations, relevant_context) and return
Aggregate(r) ==
    /\ req[r].pc = "remediate"
    /\ req[r].next > Len(req[r].violations)
    /\ req' = [req EXCEPT
                  ![r].assessment = <<RiskAssessment(req[r].violations)>>,
                  ![r].pc = "done",
                  ![r].trace = Append(@, "aggregation")]
    /\ UNCHANGED rag
    /\ Idle

AnalyzeNext ==
    \E r \in Requests :
        \/ Search(r)
        \/ Rerank(r)
        \/ Deduplicate(r)
        \/ Generate(r)
        \/ Parse(r)
        \/ Remediate(r)
        \/ Aggregate(r)

SpecAnalyze == AnalyzeInit /\ [][AnalyzeNext]_vars

-----------------------------------------------------------------------------
(***************************************************************************)
(* The Reranker: retrieve_context called once on what the vector store     *)
(* returned, with the raw scores the cross-encoder gives each chunk.       *)
(***************************************************************************)

\* the most candidates a store answer holds
MaxBatch == 4

\* the similarities a candidate may have, below and above the threshold
BaseScores == {65, 80}

\* a candidate the store returned at rank i
StoreCandidate(i, score) ==
    [text |-> ChunkTexts[(i % 4) + 1],
     metadata |-> [source |-> "GDPR", chunk_id |-> ChunkName(i)],
     score |-> score]

\* the store answers of n candidates
StoreBatches(n) ==
    {[i \in 1..n |-> StoreCandidate(i, base[i])] :
        base \in [1..n -> BaseScores]}

\* the retrieval settings: those of config.py, and with rerank_top_k set
RetrievalConfigs ==
    {RetrievalConfig, [rerank_top_k |-> 3] @@ RetrievalConfig}

\* the raw score of each candidate of a list, by its rank in the store
\* answer
RawScoresOf(docs, raw) ==
    [i \in 1..Len(docs) |->
        raw[CHOOSE k \in DOMAIN raw : ChunkName(k) = docs[i].metadata.chunk_id]]

RerankInit ==
    /\ pc = "rerank_call"
    /\ batch \in {[results |-> rs, raw |-> raw, top_k |-> k,
                    reranker |-> b, retrieval_config |-> c,
                    scored |-> <<>>, returned |-> <<>>] :
                      rs \in UNION {StoreBatches(n) : n \in 0..MaxBatch},
                      raw \in UNION {[1..n -> {RawScores[j] : j \in 1..Len(RawScores)}]
                                        : n \in 0..MaxBatch},
                      k \in {1, 2}, b \in BOOLEAN, c \in RetrievalConfigs}
    /\ Len(batch.raw) = Len(batch.results)
    /\ IdleAggregator /\ IdleParser /\ IdleValidator /\ IdleCoordinator
    /\ IdleMapper
    /\ IdleRag
    /\ IdleAnalysis
    /\ IdleBlock

\* retrieve_context(query, top_k)
RetrieveContextCall ==
    /\ pc = "rerank_call"
    /\ LET filtered_results == FilterByThreshold(batch.results)
           rerank_scores == RawScoresOf(filtered_results, batch.raw)
       IN  batch' = [batch EXCEPT
                        !.scored =
                            IF batch.reranker /\ filtered_results # <<>>
                            THEN ScoreBatch(filtered_results, rerank_scores)
                            ELSE <<>>,
                        !.returned =
                            RetrieveContext(batch.results, rerank_scores,
                                            batch.top_k, batch.reranker,
                                            batch.retrieval_config)]
    /\ pc' = "rerank_done"
    /\ UNCHANGED <<violations, assessment, response, parsed, articles, context,
                   cited, scenario, all_results, unique_results, rem, rag,
                   req,
                   blk>>

RerankNext == RetrieveContextCall

SpecRerank == RerankInit /\ [][RerankNext]_vars

-----------------------------------------------------------------------------
(***************************************************************************)
(* The Violation Parser's line loop run on one block.                      *)
(***************************************************************************)

\* the most lines of a block
MaxLines == 3

\* the lines a block may hold
LinePool ==
    {"Severity category: Low", "Severity: High", "Articles: 6, 7",
     "Why this violates Article 6: no basis", "Quote about why: 'x'",
     "  Description : too: vague  ", "Note: nothing"}

BlockLines == UNION {[1..n -> LinePool] : n \in 0..MaxLines}

BlockInit ==
    /\ pc = "block_call"
    /\ blk \in {[lines |-> ls, block |-> Join(ls, "\n"),
                  data |-> EmptyViolationData] : ls \in BlockLines}
    /\ IdleAggregator /\ IdleParser /\ IdleValidator /\ IdleCoordinator
    /\ IdleMapper /\ IdleRag /\ IdleAnalysis /\ IdleReranker

\* the loop over the lines of one block
ParseBlockCall ==
    /\ pc = "block_call"
    /\ blk' = [blk EXCEPT !.data = ParseBlock(blk.block)]
    /\ pc' = "block_done"
    /\ UNCHANGED <<violations, assessment, response, parsed, articles, context,
                   cited, scenario, all_results, unique_results, rem, rag,
                   req, batch>>

BlockNext == ParseBlockCall

SpecBlock == BlockInit /\ [][BlockNext]_vars

-----------------------------------------------------------------------------
(***************************************************************************)
(* analyze_scenario from the model's answer on: parse, remediate, assess;  *)
(* next to it, _assess_overall_risk called with a list of the caller's.    *)
(***************************************************************************)

BodyAccess == "6\nCategory: Access\nSeverity: Low\n"

\* the answers of the model
AnswerTexts ==
    ParserInputs
    \cup {BlockMarker \o BodyAccess,
          BlockMarker \o BodyAccess \o BlockMarker \o BodyAccess,
          BlockMarker \o BodyAccess \o BlockMarker \o BodyConsent}

\* the lists a caller of _assess_overall_risk passes
DirectLists == UNION {[1..n -> RiskKinds] : n \in 0..MaxMixed}

AssessInit ==
    /\ \/ /\ pc = "parse_call"
          /\ response \in AnswerTexts
          /\ violations = None
       \/ /\ pc = "risk_call"
          /\ response = None
          /\ violations \in DirectLists
    /\ parsed = None
    /\ assessment = None
    /\ IdleValidator /\ IdleCoordinator /\ IdleMapper /\ IdleRag
    /\ IdleAnalysis /\ IdleReranker /\ IdleBlock

\* steps 3 and 4 of analyze_scenario on the parser's list
RemediateAndAssess ==
    /\ pc = "parse_done"
    /\ \E failing \in FailingSets :
           LET remediated == RemediateFrom(parsed, 1, failing)
           IN  /\ violations' = remediated.violations
               /\ assessment' = RiskAssessment(remediated.violations)
    /\ pc' = "risk_done"
    /\ UNCHANGED <<response, parsed, articles, context, cited, scenario,
                   all_results, unique_results, rem, rag, req, batch, blk>>

AssessNext == ParseViolations \/ RemediateAndAssess \/ AssessOverallRisk

SpecAssess == AssessInit /\ [][AssessNext]_vars

-----------------------------------------------------------------------------
(***************************************************************************)
(* Claims about the Risk Aggregator (checked under SpecRisk).              *)
(***************************************************************************)

RiskDone == pc = "risk_done"

AllCritical(vs) ==
    \A i \in 1..Len(vs) : vs[i].severity = "Critical" /\ vs[i].risk_score = 90

\* every violation has the same severity and the severity table's risk score
UniformTable(vs) ==
    \A i \in 1..Len(vs) :
        /\ vs[i].severity = vs[1].severity
        /\ vs[i].risk_score = SeverityScore(vs[i].severity)

\* C5: for a non-empty list of violations with risk scores in [0, 10] the
\* overall score lies in [0, 10], and for 10 or more Critical violations
\* (risk score 9.0) it is exactly 10.
C5_ScoreClamped ==
    (RiskDone /\ violations # <<>>) =>
        /\ assessment.risk_score.num >= 0
        /\ assessment.risk_score.den > 0
        /\ assessment.risk_score.num <= 10 * assessment.risk_score.den
        /\ (Len(violations) >= 10 /\ AllCritical(violations)) =>
               assessment.risk_score = [num |-> 10, den |-> 1]

C5_Witness ==
    /\ RiskDone
    /\ Len(violations) >= 10
    /\ AllCritical(violations)
    /\ assessment.risk_score = [num |-> 10, den |-> 1]

\* The reference of C6, computed from sums over the list's positions:
\* the unclamped score is RefNum / RefDen.
RECURSIVE SumTo(_, _)
SumTo(f, n) == IF n = 0 THEN 0 ELSE f[n] + SumTo(f, n - 1)

RefWeight(sev) ==
    IF sev = "Critical" THEN 10 ELSE IF sev = "High" THEN 8
    ELSE IF sev = "Medium" THEN 6 ELSE IF sev = "Low" THEN 4 ELSE 5

RefNum(vs) ==
    SumTo([i \in 1..Len(vs) |-> vs[i].risk_score * RefWeight(vs[i].severity)],
          Len(vs))
    * (100 + 2 * (IF Len(vs) < 10 THEN Len(vs) ELSE 10))

RefDen(vs) ==
    1000 * SumTo([i \in 1..Len(vs) |-> RefWeight(vs[i].severity)], Len(vs))

\* the fraction x is n / d (x in lowest terms or not)
IsFraction(x, n, d) ==
    IF x.num = 0 THEN n = 0
    ELSE LET k == n \div x.num IN k > 0 /\ n = k * x.num /\ d = k * x.den

RefLevel(vs) ==
    IF RefNum(vs) >= 8 * RefDen(vs) THEN "Critical"
    ELSE IF RefNum(vs) >= 6 * RefDen(vs) THEN "High"
    ELSE IF RefNum(vs) >= 4 * RefDen(vs) THEN "Medium"
    ELSE IF RefNum(vs) >= 2 * RefDen(vs) THEN "Low"
    ELSE "Minimal"

\* C6: for a non-empty violation list the score is
\* min(10, (sum of risk_i x w_i / sum of w_i) x (1 + 0.02 x min(count, 10)))
\* with w = 1.0, 0.8, 0.6, 0.4 for Critical, High, Medium, Low and 0.5
\* otherwise, and the level is Critical from 8, High from 6, Medium from 4,
\* Low from 2 and Minimal below (the boundary belongs to the higher level).
C6_MatchesReference ==
    (RiskDone /\ violations # <<>>) =>
        /\ IF RefNum(violations) >= 10 * RefDen(violations)
           THEN assessment.risk_score = [num |-> 10, den |-> 1]
           ELSE IsFraction(assessment.risk_score, RefNum(violations),
                           RefDen(violations))
        /\ assessment.overall_risk_level = RefLevel(violations)

\* ten Medium violations: 5.0 x 1.2 is exactly the boundary 6, level High
C6_Witness ==
    /\ RiskDone
    /\ Len(violations) = 10
    /\ UniformTable(violations)
    /\ violations[1].severity = "Medium"
    /\ assessment.risk_score = [num |-> 6, den |-> 1]
    /\ assessment.overall_risk_level = "High"

\* one Critical (9.0), one High (7.0) and one Medium (5.0), in any order
CriticalHighMedium(vs) ==
    /\ Len(vs) = 3
    /\ {vs[i].severity : i \in 1..3} = {"Critical", "High", "Medium"}
    /\ \A i \in 1..3 : vs[i].risk_score = SeverityScore(vs[i].severity)

\* lo/100 < x < hi/100
Between(x, lo, hi) == lo * x.den < 100 * x.num /\ 100 * x.num < hi * x.den

\* C7 as stated: three violations Critical, High, Medium give a final score
\* of about 8.03 (8.02 < score < 8.04) and the level Critical.
C7_AsStated ==
    (RiskDone /\ CriticalHighMedium(violations)) =>
        /\ Between(assessment.risk_score, 802, 804)
        /\ assessment.overall_risk_level = "Critical"

\* C7 amended: three violations Critical, High, Medium give the weighted
\* mean 17.6 / 2.4 = 7.33, the final score 7.33 x 1.06 = 583/75, about 7.77,
\* and the level High.
C7_Amended ==
    (RiskDone /\ CriticalHighMedium(violations)) =>
        /\ assessment.risk_score = [num |-> 583, den |-> 75]
        /\ Between(assessment.risk_score, 777, 778)
        /\ assessment.overall_risk_level = "High"

C7_Witness ==
    /\ RiskDone
    /\ CriticalHighMedium(violations)
    /\ assessment.overall_risk_level = "High"

Front(vs) == SubSeq(vs, 1, Len(vs) - 1)

C9_EmptyIsMinimal ==
    (RiskDone /\ violations = <<>>) =>
        /\ assessment.risk_score = [num |-> 0, den |-> 1]
        /\ assessment.overall_risk_level = "Minimal"
        /\ assessment.compliance_gaps = {}
        /\ assessment.recommendations = <<>>
        /\ assessment.violations = <<>>

C9_Witness ==
    /\ RiskDone
    /\ violations = <<>>
    /\ assessment.overall_risk_level = "Minimal"

-----------------------------------------------------------------------------
(***************************************************************************)
(* Claims about the Violation Parser (checked under SpecParse).            *)
(***************************************************************************)

ParseDone == pc = "parse_done"

FallbackNote == "Manual review recommended - automated parsing incomplete"

\* C3: for every model output (empty, without a block marker, with markers
\* but malformed or key-less blocks, with more than 10 blocks) the parser
\* returns, and its result holds at least one Violation.
C3_AtLeastOneViolation ==
    ParseDone =>
        /\ Len(parsed) >= 1
        /\ \A i \in 1..Len(parsed) : parsed[i].category # ""

\* more than ten blocks, none with a category: the fallback alone
C3_Witness ==
    /\ ParseDone
    /\ Len(ViolationBlocks(response)) > MaxBlocks
    /\ Len(parsed) = 1
    /\ parsed[1].verification_notes = FallbackNote

\* the single fallback Violation, but for its category
IsFallbackList(vs) ==
    /\ Len(vs) = 1
    /\ vs[1].severity = "Medium"
    /\ vs[1].risk_score = 50
    /\ vs[1].articles = <<>>
    /\ vs[1].verification_notes = FallbackNote

RecognizedSeverities == {"Critical", "High", "Medium", "Low"}

\* C11 as stated: every Violation the parser returns has a severity among
\* Critical, High, Medium and Low; a block whose severity line is absent,
\* empty or not one of the four strings yields severity Medium.
C11_AsStated ==
    ParseDone =>
        \A i \in 1..Len(parsed) : parsed[i].severity \in RecognizedSeverities

\* the severity_scores table as the claim states it, in tenths
RefScore(sev) ==
    IF sev = "Critical" THEN 90
    ELSE IF sev = "High" THEN 70
    ELSE IF sev = "Medium" THEN 50
    ELSE IF sev = "Low" THEN 30
    ELSE 50

\* C12: the risk score of a parsed violation is a function of its severity
\* string only: Critical 9.0, High 7.0, Medium 5.0, Low 3.0, any other
\* string 5.0; two parsed violations with the same severity have the same
\* risk score, whatever their other fields and their position.
C12_ScoreBySeverity ==
    ParseDone =>
        /\ \A i \in 1..Len(parsed) :
               parsed[i].risk_score = RefScore(parsed[i].severity)
        /\ \A i, j \in 1..Len(parsed) :
               parsed[i].severity = parsed[j].severity
                   => parsed[i].risk_score = parsed[j].risk_score

\* two violations of one severity with different categories and references
C12_Witness ==
    /\ ParseDone
    /\ \E i, j \in 1..Len(parsed) :
           /\ i < j
           /\ parsed[i].severity = parsed[j].severity
           /\ parsed[i].category # parsed[j].category
           /\ parsed[i].articles # parsed[j].articles
           /\ parsed[i].risk_score = 70

\* a violation with an unrecognized severity, scored 5.0
C12_WitnessOther ==
    /\ ParseDone
    /\ \E i \in 1..Len(parsed) :
           /\ parsed[i].severity \notin RecognizedSeverities
           /\ parsed[i].risk_score = 50

\* the category each marker-delimited block of the model outputs carries,
\* read off the block's text ("" for a block without one)
ExpectedCategory(block) ==
    IF block = BodyConsent THEN "Consent"
    ELSE IF block = BodySecurity THEN "Security"
    ELSE IF block = "4\nCategory: Data " THEN "Data"
    ELSE IF block = BodyTransparency THEN "Transparency"
    ELSE IF block = BodyErasure THEN "Erasure"
    ELSE IF block = BodyRetention THEN "Retention"
    ELSE ""

HasExpectedCategory(block) == ExpectedCategory(block) # ""

\* the first 10 marker-delimited blocks of a model output
FirstBlocks(resp) ==
    LET blocks == Tail(Split(resp, "VIOLATION "))
    IN  SubSeq(blocks, 1, Min(Len(blocks), 10))

\* C20: when the model output holds a block marker, the result is, in block
\* order, exactly one Violation for each of the first 10 blocks with a
\* non-empty category, each the Violation that block gives when parsed
\* alone; blocks after the tenth are ignored, a block without a category is
\* skipped, and if none of the first 10 qualifies the result is the single
\* fallback Violation.
C20_BlockByBlock ==
    (ParseDone /\ Contains(response, BlockMarker)) =>
        LET kept == SelectSeq(FirstBlocks(response), HasExpectedCategory)
        IN  IF kept = <<>>
            THEN /\ IsFallbackList(parsed)
                 /\ parsed[1].category = "GDPR Compliance Review"
            ELSE /\ Len(parsed) = Len(kept)
                 /\ \A i \in 1..Len(kept) :
                        /\ parsed[i].category = ExpectedCategory(kept[i])
                        /\ <<parsed[i]>> =
                               ParseViolationsFromResponse(BlockMarker \o kept[i])

\* ten blocks without a category, then a block with one: the fallback alone
C20_Witness ==
    /\ ParseDone
    /\ Len(Tail(Split(response, BlockMarker))) > 10
    /\ HasExpectedCategory(Tail(Split(response, BlockMarker))[11])
    /\ IsFallbackList(parsed)

\* a block without a category between two blocks with one
C20_WitnessSkip ==
    /\ ParseDone
    /\ Len(parsed) = 2
    /\ Len(FirstBlocks(response)) = 3
    /\ ~HasExpectedCategory(FirstBlocks(response)[2])

\* ---- the line loop on one block (checked under SpecBlock) ----

BlockDone == pc = "block_done"

\* the keywords in the order the loop tests them, each with its field
KeywordOrder ==
    <<[word |-> "category", field |-> "category"],
      [word |-> "severity", field |-> "severity"],
      [word |-> "article", field |-> "articles"],
      [word |-> "quote", field |-> "quote"],
      [word |-> "problematic", field |-> "quote"],
      [word |-> "why", field |-> "description"],
      [word |-> "description", field |-> "description"]>>

\* a line the loop reads as 'key: value'
IsKeyValue(raw) == Strip(raw) # "" /\ Contains(Strip(raw), ":")

LineKey(raw) == ToLower(Strip(SplitOnce(Strip(raw), ":")[1]))

LineValue(raw) == Strip(SplitOnce(Strip(raw), ":")[2])

\* the field a line writes: that of the first keyword its key contains
FieldOf(raw) ==
    IF ~IsKeyValue(raw) THEN "none"
    ELSE LET hits == {i \in DOMAIN KeywordOrder :
                          Contains(LineKey(raw), KeywordOrder[i].word)}
         IN  IF hits = {} THEN "none"
             ELSE KeywordOrder[CHOOSE i \in hits : \A j \in hits : i <= j].field

\* the positions of the lines that write a field
Writers(lines, field) == {i \in DOMAIN lines : FieldOf(lines[i]) = field}

LastWriter(lines, field) ==
    CHOOSE i \in Writers(lines, field) : \A j \in Writers(lines, field) : j <= i

\* the value of the last line that writes a field, or ""
LastValue(lines, field) ==
    IF Writers(lines, field) = {} THEN ""
    ELSE LineValue(lines[LastWriter(lines, field)])

\* the data a block's lines leave, field by field
ExpectedData(lines) ==
    [category |-> LastValue(lines, "category"),
     severity |-> IF Writers(lines, "severity") = {} THEN "Medium"
                  ELSE LastValue(lines, "severity"),
     articles |-> IF Writers(lines, "articles") = {} THEN <<>>
                  ELSE ParseArticles(LastValue(lines, "articles")),
     quote |-> StripChars(LastValue(lines, "quote"), {"\"", "'"}),
     description |-> LastValue(lines, "description")]

\* C29: each 'key: value' line of a block writes exactly the field of the first
\* keyword its key contains, in the order category, severity, article,
\* quote/problematic, why/description; the last line for a field decides it, a
\* key with 'article' and 'why' replaces the references and leaves the
\* description, and a line whose key has no keyword changes nothing.
C29_KeyPrecedence ==
    BlockDone =>
        /\ blk.data = ExpectedData(blk.lines)
        /\ \A i \in DOMAIN blk.lines :
               LET before == ParseLines(SubSeq(blk.lines, 1, i - 1),
                                        EmptyViolationData)
                   after == ParseLine(before, blk.lines[i])
                   f == FieldOf(blk.lines[i])
               IN  /\ f = "none" => after = before
                   /\ \A g \in DOMAIN after : g # f => after[g] = before[g]
                   /\ (/\ IsKeyValue(blk.lines[i])
                       /\ Contains(LineKey(blk.lines[i]), "article")
                       /\ Contains(LineKey(blk.lines[i]), "why")
                       /\ ~Contains(LineKey(blk.lines[i]), "category")
                       /\ ~Contains(LineKey(blk.lines[i]), "severity"))
                      => /\ after.articles = ParseArticles(LineValue(blk.lines[i]))
                         /\ after.description = before.description

\* a 'Why this violates Article 6' line after a description and a reference
\* line: the references are its words, the description is the earlier one
C29_Witness ==
    /\ BlockDone
    /\ blk.lines = <<"  Description : too: vague  ", "Articles: 6, 7",
                     "Why this violates Article 6: no basis">>
    /\ blk.data.articles = <<"no", "basis">>
    /\ blk.data.description = "too: vague"

\* a later line for the same field overwrites, a key without keyword does not
C29_WitnessOverwrite ==
    /\ BlockDone
    /\ blk.lines = <<"Severity: High", "Severity category: Low",
                     "Note: nothing">>
    /\ blk.data.category = "Low"
    /\ blk.data.severity = "High"

\* a key holding both 'quote' and 'why' writes the quote
C29_WitnessQuote ==
    /\ BlockDone
    /\ blk.lines = <<"Note: nothing", "Quote about why: 'x'">>
    /\ blk.data.quote = "x"
    /\ blk.data.description = ""

-----------------------------------------------------------------------------
(***************************************************************************)
(* Claims about the Citation Validator (checked under SpecCite).           *)
(***************************************************************************)

CiteDone == pc = "cite_done"

AllWhitespace(t) == \A k \in 1..Len(t) : Char(t, k) \in {" ", "\n", "\t", "\r", "\f"}

\* text holds the word Article (in any case), then whitespace, then exactly
\* the number n, which ends at a word boundary
HasProvisionNumber(text, n) ==
    \E i \in 1..Len(text) : \E j \in (i + 8)..(Len(text) - Len(n) + 1) :
        /\ ToLower(SubSeq(text, i, i + 6)) = "article"
        /\ AllWhitespace(SubSeq(text, i + 7, j - 1))
        /\ SubSeq(text, j, j + Len(n) - 1) = n
        /\ \/ j + Len(n) > Len(text)
           \/ Char(text, j + Len(n)) \notin WordChars

\* C1: each citation emitted for a reference whose first number is N is
\* built from a candidate of the list whose text holds 'Article', whitespace
\* and exactly N ending at a word boundary, in any case; a candidate with
\* only a longer number, or with N but not the provision word, backs none.
C1_ExactReference ==
    CiteDone =>
        \A k \in 1..Len(cited.citations) :
            /\ FirstNumber(cited.citations[k].article_or_recital) # ""
            /\ \E c \in 1..Len(context) : context[c].text = cited.matches[k].text
            /\ cited.citations[k].quoted_text = cited.matches[k].quote
            /\ HasProvisionNumber(cited.matches[k].text,
                   FirstNumber(cited.citations[k].article_or_recital))

\* the list holds 'Article 60' with the top score and 'Article 6' with a
\* lower one, and the citation for 6 is built from the latter
C1_Witness ==
    /\ CiteDone
    /\ articles = <<"6">>
    /\ context = <<Reranked(TextArticle60, "a60", 100),
                   Reranked(TextLowercase, "low", 25)>>
    /\ Len(cited.citations) = 1
    /\ cited.matches[1].text = TextLowercase

\* C2: the quoted_text of every emitted citation is a contiguous part of the
\* text of at least one candidate of the list passed to the validator.
C2_QuoteFromCandidate ==
    CiteDone =>
        \A k \in 1..Len(cited.citations) :
            \E c \in 1..Len(context) :
                Contains(context[c].text, cited.citations[k].quoted_text)

\* a quote that is the clause after the marker, shorter than the text
C2_Witness ==
    /\ CiteDone
    /\ Len(cited.citations) >= 1
    /\ cited.matches[1].text = TextArticle6
    /\ cited.citations[1].quoted_text =
           "Article 6 Lawfulness. Processing is lawful only if"

\* the relevance of a candidate: its rerank score when it has one, its base
\* retrieval score otherwise
RefRelevance(c) ==
    IF "rerank_score" \in DOMAIN c THEN c.rerank_score ELSE c.score

\* 'recital' in the text without 'article', in any case
IsRecitalOnly(text) ==
    Contains(ToLower(text), "recital") /\ ~Contains(ToLower(text), "article")

\* text holds at position i the word Article (in any case), whitespace and
\* exactly the number n, not followed by a word character
ProvisionNumberAt(text, n, i) ==
    \E j \in (i + 8)..(Len(text) - Len(n) + 1) :
        /\ ToLower(SubSeq(text, i, i + 6)) = "article"
        /\ AllWhitespace(SubSeq(text, i + 7, j - 1))
        /\ SubSeq(text, j, j + Len(n) - 1) = n
        /\ \/ j + Len(n) > Len(text)
           \/ Char(text, j + Len(n)) \notin WordChars

\* the exact match: the word Article starting a word, whitespace and
\* exactly the number n
ExactProvision(text, n) ==
    \E i \in 1..Len(text) :
        /\ i = 1 \/ Char(text, i - 1) \notin WordChars
        /\ ProvisionNumberAt(text, n, i)

\* the candidates that pass the recital check and the exact-match check for
\* a reference
PassingCandidates(ref) ==
    {c \in 1..Len(context) :
        /\ ~IsRecitalOnly(context[c].text)
        /\ FirstNumber(ref) # ""
        /\ ExactProvision(context[c].text, FirstNumber(ref))}

\* a is b with some elements left out
RECURSIVE IsSubsequence(_, _)
IsSubsequence(a, b) ==
    IF a = <<>> THEN TRUE
    ELSE IF b = <<>> THEN FALSE
    ELSE IF Head(a) = Head(b) THEN IsSubsequence(Tail(a), Tail(b))
    ELSE IsSubsequence(a, Tail(b))

\* C24: only the first three references are considered, each yields at most
\* one citation, and the candidate selected for a reference is one with the
\* highest relevance among the candidates that pass the recital check and
\* the exact-match check, relevance being the rerank score when present and
\* the base retrieval score otherwise.
C24_HighestRelevance ==
    CiteDone =>
        /\ Len(cited.selected) <= MaxCitations
        /\ Len(cited.selected) <= Len(articles)
        /\ Len(cited.citations) <= Len(cited.selected)
        /\ IsSubsequence(
               [k \in 1..Len(cited.citations) |->
                   cited.citations[k].article_or_recital],
               SubSeq(articles, 1, Len(cited.selected)))
        /\ \A k \in 1..Len(cited.selected) :
               LET passing == PassingCandidates(articles[k])
               IN  IF cited.selected[k] = <<>>
                   THEN \A c \in passing : RefRelevance(context[c]) <= 0
                   ELSE /\ \E c \in passing :
                               /\ context[c].text = cited.selected[k][1].text
                               /\ RefRelevance(context[c])
                                  = cited.selected[k][1].relevance
                        /\ \A c \in passing :
                               RefRelevance(context[c])
                               <= cited.selected[k][1].relevance

\* of two passing candidates the second, with the higher rerank score, is
\* selected, and a fourth reference is not considered
C24_Witness ==
    /\ CiteDone
    /\ Len(articles) = 4
    /\ Len(cited.selected) = 3
    /\ context = <<Reranked(TextLowercase, "low", 25),
                   Reranked(TextArticle6, "a6", 100)>>
    /\ cited.selected[3] # <<>>
    /\ cited.selected[3][1].text = TextArticle6

\* the only passing candidate has relevance 0 and is not selected
C24_WitnessZero ==
    /\ CiteDone
    /\ articles = <<"6">>
    /\ context = <<Reranked(TextArticle6, "a6", 0)>>
    /\ cited.selected = << <<>> >>

QualityTiers == {"Excellent", "Good", "Fair", "Marginal"}

C25_WitnessNoTier ==
    /\ CiteDone
    /\ articles = <<"6">>
    /\ context = <<Unranked(TextArticle6, "a6", 85),
                   Reranked(TextLowercase, "low", 50)>>
    /\ cited.selected[1][1].quality_tier = "Unknown"
    /\ cited.returns_none

C25_WitnessBelowFloor ==
    /\ CiteDone
    /\ articles = <<"6">>
    /\ context = <<Reranked(TextArticle6, "a6", 10)>>
    /\ cited.selected[1] # <<>>
    /\ cited.returns_none

\* C26: a candidate whose text contains 'recital' and does not contain
\* 'article' (in any case) never backs an emitted citation, whatever its
\* relevance and quality tier.
C26_NoRecitalOnly ==
    CiteDone =>
        \A k \in 1..Len(cited.citations) :
            ~IsRecitalOnly(cited.matches[k].text)

\* a recital naming the number has the top score and tier, and the citation
\* is backed by the other candidate
C26_Witness ==
    /\ CiteDone
    /\ articles = <<"6">>
    /\ context = <<Reranked(TextRecital, "r6", 100),
                   Reranked(TextLowercase, "low", 25)>>
    /\ Len(cited.citations) = 1
    /\ cited.matches[1].text = TextLowercase

\* C28, as stated: the quoted_text of a citation for a reference with number
\* N begins at an exact occurrence of 'Article N' in the candidate text, N
\* not followed by another digit.
C28_AsStated ==
    CiteDone =>
        \A k \in 1..Len(cited.citations) :
            LET text == cited.matches[k].text
                quote == cited.citations[k].quoted_text
                n == FirstNumber(cited.citations[k].article_or_recital)
            IN  \E i \in 1..Len(text) :
                    /\ ProvisionNumberAt(text, n, i)
                    /\ StartsAt(text, quote, i)

\* the quote for reference 6 begins at 'Article 60'
C28_WitnessLonger ==
    /\ CiteDone
    /\ \E k \in 1..Len(cited.citations) :
           /\ FirstNumber(cited.citations[k].article_or_recital) = "6"
           /\ cited.matches[k].text = TextTwoArticles
           /\ cited.citations[k].quoted_text = TextTwoArticles

-----------------------------------------------------------------------------
(***************************************************************************)
(* Claims about the Retrieval Coordinator (checked under SpecRetrieve).    *)
(***************************************************************************)

RetrieveDone == pc = "retrieve_done"

\* the chunk_id a candidate carries, under 'chunk' or in its metadata
CarriedId(r) ==
    IF "chunk" \in DOMAIN r /\ "chunk_id" \in DOMAIN r.chunk
    THEN r.chunk.chunk_id
    ELSE IF "chunk_id" \in DOMAIN r.metadata THEN r.metadata.chunk_id
    ELSE "none"

\* C4: whatever the Candidate Store returns across the strategies (the same
\* chunk from several strategies included), the returned list never holds
\* two candidates with the same chunk_id.
C4_NoDuplicateChunk ==
    RetrieveDone =>
        \A i, j \in 1..Len(unique_results) :
            i # j => CarriedId(unique_results[i]) # CarriedId(unique_results[j])

\* a chunk returned by three strategies is in the full list of 10 once
C4_Witness ==
    /\ RetrieveDone
    /\ Len(unique_results) = MaxUnique
    /\ \E a, b, c \in 1..Len(all_results) :
           /\ a < b /\ b < c
           /\ CarriedId(all_results[a]) = "c02"
           /\ CarriedId(all_results[b]) = "c02"
           /\ CarriedId(all_results[c]) = "c02"
           /\ all_results[a] # all_results[b]
    /\ Cardinality({i \in 1..Len(unique_results) :
                       CarriedId(unique_results[i]) = "c02"}) = 1

\* 'article' in text, for text lower-cased
HasMarker(result) == Contains(ToLower(result.text), "article")

\* where a chunk_id first occurs in the concatenated strategy results
FirstOccurrence(id) ==
    CHOOSE k \in 1..Len(all_results) :
        /\ CarriedId(all_results[k]) = id
        /\ \A m \in 1..(k - 1) : CarriedId(all_results[m]) # id

\* the distinct chunk_ids retrieved with the marker in the text
MarkedIds ==
    {CarriedId(all_results[k]) : k \in {m \in 1..Len(all_results) :
        HasMarker(all_results[m]) /\ CarriedId(all_results[m]) # "none"}}

\* C21, as stated: the merged output holds at most 10 candidates, every
\* candidate whose text contains 'article' precedes every candidate whose
\* text does not, candidates of the same kind keep the order of their first
\* occurrence, and a candidate without 'article' appears only when fewer
\* than 10 distinct candidates with it were retrieved.
C21_AsStated ==
    RetrieveDone =>
        /\ Len(unique_results) <= MaxUnique
        /\ \A i, j \in 1..Len(unique_results) :
               (HasMarker(unique_results[i]) /\ ~HasMarker(unique_results[j]))
               => i < j
        /\ \A i, j \in 1..Len(unique_results) :
               (i < j /\ HasMarker(unique_results[i])
                         = HasMarker(unique_results[j]))
               => FirstOccurrence(CarriedId(unique_results[i]))
                  < FirstOccurrence(CarriedId(unique_results[j]))
        /\ (\E i \in 1..Len(unique_results) : ~HasMarker(unique_results[i]))
           => Cardinality(MarkedIds) < MaxUnique

\* the same statement with the marker read as the code's first pass reads
\* it: 'article' in the text and 'recital' not in it
C21_OperativeFirst ==
    RetrieveDone =>
        /\ Len(unique_results) <= MaxUnique
        /\ \A i, j \in 1..Len(unique_results) :
               (OperativeOnly(unique_results[i])
                /\ ~OperativeOnly(unique_results[j]))
               => i < j
        /\ \A i, j \in 1..Len(unique_results) :
               (i < j /\ OperativeOnly(unique_results[i])
                         = OperativeOnly(unique_results[j]))
               => FirstOccurrence(CarriedId(unique_results[i]))
                  < FirstOccurrence(CarriedId(unique_results[j]))

\* a candidate naming an article inside a recital follows one without any
\* marker
C21_WitnessRecital ==
    /\ RetrieveDone
    /\ \E i, j \in 1..Len(unique_results) :
           /\ i < j
           /\ ~HasMarker(unique_results[i])
           /\ HasMarker(unique_results[j])
           /\ ~OperativeOnly(unique_results[j])

-----------------------------------------------------------------------------
(***************************************************************************)
(* Claims about the Remediation Mapper (checked under SpecRemedy).         *)
(***************************************************************************)

RemedyDone == pc = "remedy_done"

\* the orderings of a list
Reorderings(xs) ==
    LET n == Len(xs)
        perms == {f \in [1..n -> 1..n] :
                     \A i, j \in 1..n : i # j => f[i] # f[j]}
    IN  {[i \in 1..n |-> xs[f[i]]] : f \in perms}

\* some reference of the list names Article n
NamesArticle(refs, n) ==
    \E i \in 1..Len(refs) : Contains(refs[i], "Article " \o n)

\* the key of the first reference rule, in the order 17, 21, 15, 20, 6 or 7,
\* 33 or 34, 13 or 14, 32, that a reference of the list matches ("" when
\* none does)
ReferenceRuleKey(refs) ==
    IF NamesArticle(refs, "17") THEN "erasure_rights"
    ELSE IF NamesArticle(refs, "21") THEN "objection_rights"
    ELSE IF NamesArticle(refs, "15") THEN "access_rights"
    ELSE IF NamesArticle(refs, "20") THEN "portability_rights"
    ELSE IF NamesArticle(refs, "6") \/ NamesArticle(refs, "7")
        THEN "consent_violation"
    ELSE IF NamesArticle(refs, "33") \/ NamesArticle(refs, "34")
        THEN "data_breach"
    ELSE IF NamesArticle(refs, "13") \/ NamesArticle(refs, "14")
        THEN "transparency"
    ELSE IF NamesArticle(refs, "32") THEN "security"
    ELSE ""

TemplateKeys ==
    {"consent_violation", "data_subject_rights", "erasure_rights",
     "objection_rights", "access_rights", "portability_rights", "data_breach",
     "transparency", "data_transfer", "security", "accountability",
     "legal_basis", "data_retention", "dpo_requirement"}

\* C16 as stated: the template key is always a key of the template table
\* (the generic guidance is never needed); when a reference matches a
\* reference rule it is the key of the first such rule in the order 17, 21,
\* 15, 20, 6 or 7, 33 or 34, 13 or 14, 32, whatever the category; and it does
\* not depend on the order of the references in the list.
C16_AsStated ==
    \A k \in 1..Len(rem.returned) :
        LET call == rem.calls[k]
            key == rem.returned[k].template_key
        IN  /\ key \in TemplateKeys
            /\ ~rem.returned[k].generic
            /\ ReferenceRuleKey(call.articles) # ""
                   => key = ReferenceRuleKey(call.articles)
            /\ \A refs \in Reorderings(call.articles) :
                   MapToTemplate(call.violation_category, refs) = key

ImmediateActions(r) ==
    {r.guidance.immediate_actions[i] :
        i \in 1..Len(r.guidance.immediate_actions)}

\* C17: of two violations of category 'Data Subject Rights', one with the
\* reference Article 17 and one with the reference Article 21, the first
\* gets a template key different from the second's, and the immediate-action
\* lists of the two guidances have no element in common.
C17_DistinctGuidance ==
    \A i, j \in 1..Len(rem.returned) :
        (/\ rem.calls[i].violation_category = "Data Subject Rights"
         /\ rem.calls[j].violation_category = "Data Subject Rights"
         /\ rem.calls[i].articles = <<"Article 17">>
         /\ rem.calls[j].articles = <<"Article 21">>)
        => /\ rem.returned[i].template_key # rem.returned[j].template_key
           /\ ImmediateActions(rem.returned[i])
                  \cap ImmediateActions(rem.returned[j]) = {}

\* the two calls of scripts/test_remediation.py have returned
C17_Witness ==
    /\ RemedyDone
    /\ Len(rem.returned) = 2
    /\ rem.calls[1] =
           RemediationCall("Data Subject Rights", <<"Article 17">>, "Critical")
    /\ rem.calls[2] =
           RemediationCall("Data Subject Rights", <<"Article 21">>, "High")
    /\ rem.returned[1].template_key = "erasure_rights"
    /\ rem.returned[2].template_key = "objection_rights"
    /\ ImmediateActions(rem.returned[1]) # {}
    /\ ImmediateActions(rem.returned[2]) # {}

\* the priority the claim maps a severity to
RefPriority(severity) ==
    IF ToLower(severity) = "critical" THEN "Critical"
    ELSE IF ToLower(severity) = "high" THEN "High"
    ELSE IF ToLower(severity) = "medium" THEN "Medium"
    ELSE "Low"

\* C19 as stated: for every template and every severity, the priority of
\* the guidance equals the priority mapped from the violation's own severity
\* (critical to Critical, high to High, medium to Medium, anything else to
\* Low), whatever priority the template stores.
C19_AsStated ==
    \A k \in 1..Len(rem.returned) :
        rem.returned[k].guidance.priority = RefPriority(rem.calls[k].severity)

\* a reference of the list names Article n exactly: the number is not
\* followed by another digit
NamesExactly(refs, n) ==
    \E i \in 1..Len(refs) :
        \E a \in 1..Len(refs[i]) :
            /\ StartsAt(refs[i], "Article " \o n, a)
            /\ \/ a + Len(n) + 8 > Len(refs[i])
               \/ Char(refs[i], a + Len(n) + 8) \notin DigitSet

\* the numbers the reference rules name
RuleNumbers ==
    {"17", "21", "15", "20", "6", "7", "33", "34", "13", "14", "32"}

\* C27, as stated: a reference rule for number N fires only when the
\* references name exactly Article N; a single reference that names only an
\* article whose number merely starts with N selects the template of the
\* category rules.
C27_AsStated ==
    \A k \in 1..Len(rem.returned) :
        LET call == rem.calls[k]
        IN  (/\ Len(call.articles) = 1
             /\ \A n \in RuleNumbers : ~NamesExactly(call.articles, n))
            => rem.returned[k].template_key
               = MapToTemplate(call.violation_category, <<>>)

\* 'Article 60' has selected the consent template for a category that the
\* category rules map to the default
C27_WitnessLonger ==
    \E k \in 1..Len(rem.returned) :
        /\ rem.calls[k].articles = <<"Article 60">>
        /\ rem.calls[k].violation_category = "Data Subject Rights"
        /\ rem.returned[k].template_key = "consent_violation"

-----------------------------------------------------------------------------
(***************************************************************************)
(* Claims about analysis requests (checked under SpecAnalyze).             *)
(***************************************************************************)

Returned(r) == req[r].pc = "done"

RaisedToCaller(r) == req[r].pc = "raised"

\* a violation list with the guidance the remediation loop attached removed
WithoutGuidance(vs) ==
    [i \in 1..Len(vs) |-> [vs[i] EXCEPT !.remediation_guidance = None]]

\* the stages that come before citation validation, and those that follow
StagesBefore == {"retrieval", "rerank", "generation", "parse"}
StagesAfter == {"remediation", "aggregation"}

\* C13, as stated: within a request the stages run in the order retrieval,
\* rerank, generation, parse, citation validation, remediation mapping,
\* aggregation, so a request that returned has run the Citation Validator
\* after every earlier stage and before remediation and aggregation.
C13_AsStated ==
    \A r \in Requests :
        Returned(r) =>
            \E k \in 1..Len(req[r].trace) :
                /\ req[r].trace[k] = "validation"
                /\ \A i \in 1..(k - 1) : req[r].trace[i] \in StagesBefore
                /\ \A i \in (k + 1)..Len(req[r].trace) :
                       req[r].trace[i] \in StagesAfter \cup {"validation"}

\* no block of the text yields a violation
NoBlockParses(text) ==
    LET violation_blocks == ViolationBlocks(text)
    IN  ParseBlocks(SubSeq(violation_blocks, 1,
                           Min(Len(violation_blocks), MaxBlocks))) = <<>>

\* C14: when the generation model raises an exception, or returns a text
\* from which no block parses, analyze_scenario raises nothing to its caller
\* and the assessment it returns holds exactly the single fallback violation.
C14_FallbackOnModelFailure ==
    \A r \in Requests :
        (req[r].model_called
         /\ req[r].pc \notin {"generate", "parse"}
         /\ (req[r].model_raised \/ NoBlockParses(req[r].answer)))
        => /\ ~RaisedToCaller(r)
           /\ Returned(r) =>
                  WithoutGuidance(req[r].assessment[1].violations)
                  = <<CreateFallbackViolation(req[r].answer)>>

\* a request whose model call raised has returned an assessment
C14_Witness ==
    \E r \in Requests :
        Returned(r) /\ req[r].model_raised
        /\ Len(req[r].assessment[1].violations) = 1

\* a request whose model returned an empty text, and one whose model
\* returned a block without a category, have returned an assessment
C14_WitnessEmpty ==
    \E r \in Requests :
        Returned(r) /\ ~req[r].model_raised /\ req[r].answer = ""

C14_WitnessMalformed ==
    \E r \in Requests :
        Returned(r) /\ ~req[r].model_raised
        /\ req[r].answer = BlockMarker \o BodyNoCategory

\* C15: the assessment analyze_scenario returns holds exactly the violations
\* the parser produced, in the same order; a violation whose remediation
\* raised is returned without guidance, the others are still remediated, and
\* the exception does not reach the caller.
C15_AllViolationsReturned ==
    \A r \in Requests :
        /\ Returned(r) =>
               /\ WithoutGuidance(req[r].assessment[1].violations)
                  = req[r].parsed
               /\ req[r].remediated
                  = (1..Len(req[r].parsed)) \ req[r].failing
        /\ RaisedToCaller(r) =>
               \A i \in 1..Len(req[r].trace) :
                   req[r].trace[i] # "remediation"

\* a request has returned two violations, the first of which failed to be
\* remediated and the second of which was remediated
C15_Witness ==
    \E r \in Requests :
        /\ Returned(r)
        /\ Len(req[r].assessment[1].violations) = 2
        /\ 1 \in req[r].failing
        /\ req[r].remediated = {2}

C18_WitnessOverlap ==
    \A r \in Requests : req[r].pc = "rerank"

-----------------------------------------------------------------------------
(***************************************************************************)
(* Claims about the Reranker (checked under SpecRerank).                   *)
(***************************************************************************)

RerankDone == pc = "rerank_done"

\* reranking is enabled and a candidate passes the base score threshold
RerankedCall ==
    RerankDone /\ batch.reranker /\ FilterByThreshold(batch.results) # <<>>

\* the rank of a candidate in the store's answer
StoreRank(doc) ==
    CHOOSE k \in 1..Len(batch.results) :
        ChunkName(k) = doc.metadata.chunk_id

\* the returned list is in non-increasing order of normalized score, equal
\* scores in retrieval order
SortedStable(docs) ==
    \A i, j \in 1..Len(docs) :
        i < j =>
            /\ docs[i].rerank_score >= docs[j].rerank_score
            /\ docs[i].rerank_score = docs[j].rerank_score
               => StoreRank(docs[i]) < StoreRank(docs[j])

\* C22, as stated: with reranking enabled and a candidate passing the
\* threshold, retrieve_context called with top_k returns at most top_k
\* candidates, in non-increasing order of normalized rerank score, equal
\* scores in their original retrieval order.
C22_AsStated ==
    RerankedCall =>
        /\ Len(batch.returned) <= batch.top_k
        /\ SortedStable(batch.returned)

\* the same, for the number of candidates the code truncates to
C22_TruncatedToRerankTopK ==
    RerankedCall =>
        /\ Len(batch.returned)
           <= RerankTopK(batch.retrieval_config, batch.top_k)
        /\ SortedStable(batch.returned)

\* three candidates are returned to a call with top_k = 2
C22_WitnessOver ==
    RerankedCall /\ batch.top_k = 2 /\ Len(batch.returned) = 3

\* the raw scores of the batch
BatchRaws == {batch.scored[i].rerank_score_raw : i \in 1..Len(batch.scored)}

BatchMin == CHOOSE x \in BatchRaws : \A y \in BatchRaws : x <= y

BatchMax == CHOOSE x \in BatchRaws : \A y \in BatchRaws : x >= y

\* C23: within one rerank batch the normalized score (in hundredths) of a
\* candidate is (raw - min) / (max - min) when the raw scores are not all
\* equal, hence within [0, 1], 1 for a highest and 0 for a lowest raw score;
\* it is 0.5 for every candidate when all raw scores are equal; and the
\* normalized scores are ordered as the raw scores are.
C23_MinMaxNormalized ==
    (RerankDone /\ batch.scored # <<>>) =>
        /\ \A i \in 1..Len(batch.scored) :
               LET doc == batch.scored[i]
               IN  /\ doc.rerank_score_raw
                      = batch.raw[StoreRank(doc)]
                   /\ IF BatchMax = BatchMin
                      THEN doc.rerank_score = 50
                      ELSE /\ doc.rerank_score * (BatchMax - BatchMin)
                              = (doc.rerank_score_raw - BatchMin) * 100
                           /\ doc.rerank_score \in 0..100
                           /\ doc.rerank_score_raw = BatchMax
                              => doc.rerank_score = 100
                           /\ doc.rerank_score_raw = BatchMin
                              => doc.rerank_score = 0
        /\ \A i, j \in 1..Len(batch.scored) :
               /\ batch.scored[i].rerank_score_raw
                  < batch.scored[j].rerank_score_raw
                  => batch.scored[i].rerank_score
                     < batch.scored[j].rerank_score
               /\ batch.scored[i].rerank_score_raw
                  = batch.scored[j].rerank_score_raw
                  => batch.scored[i].rerank_score
                     = batch.scored[j].rerank_score

\* a batch with three different raw scores has been normalized
C23_Witness ==
    /\ RerankDone
    /\ Cardinality(BatchRaws) = 3
    /\ \E i \in 1..Len(batch.scored) : batch.scored[i].rerank_score = 50

\* a batch of one candidate, and one of three equal raw scores
C23_WitnessSingle ==
    RerankDone /\ Len(batch.scored) = 1 /\ batch.scored[1].rerank_score = 50

C23_WitnessEqual ==
    RerankDone /\ Len(batch.scored) = 3 /\ Cardinality(BatchRaws) = 1

-----------------------------------------------------------------------------
(***************************************************************************)
(* Claims about the assessment of a model answer (checked under            *)
(* SpecAssess).                                                            *)
(***************************************************************************)

\* analyze_scenario has returned the assessment of the model's answer
Assessed == pc = "risk_done" /\ response # None

\* _assess_overall_risk has returned to a caller that passed its own list
AssessedDirectly == pc = "risk_done" /\ response = None

\* the risk scores the parser gives, in tenths
ParserScores == {30, 50, 70, 90}

\* 3.06
LowestScore == Rat(306, 100)

\* what the parser's list and the assessment built from it satisfy
AssessedFromParser ==
    Assessed =>
        /\ parsed # <<>>
        /\ Len(violations) = Len(parsed)
        /\ \A i \in DOMAIN violations :
               /\ violations[i].risk_score \in ParserScores
               /\ violations[i].risk_score = parsed[i].risk_score
               /\ violations[i].severity = parsed[i].severity
        /\ LET t == WeightedTotals(violations, [total_weighted_score |-> 0,
                                                total_weight |-> 0])
           IN  /\ t.total_weight > 0
               /\ t.total_weighted_score >= 30 * t.total_weight
        /\ RatLeq(Rat(102, 100), VolumeMultiplier(Len(violations)))
        /\ assessment.violations = violations
        /\ assessment.overall_risk_level # "Minimal"
        /\ RatLeq(LowestScore, assessment.risk_score)

ZeroMinimal ==
    /\ pc = "risk_done"
    /\ assessment.risk_score = Rat(0, 1)
    /\ assessment.overall_risk_level = "Minimal"

\* C30 as stated: the assessment of a model answer is never Minimal nor
\* below 3.06, and the outcome (0.0, Minimal) is reached only by a direct call
\* of the aggregator with an empty list.
C30_AsStated ==
    /\ AssessedFromParser
    /\ ZeroMinimal => (AssessedDirectly /\ violations = <<>>)

\* C30: for every model answer the parser returns at least one violation,
\* each scored 3.0, 5.0, 7.0 or 9.0, so the assessment analyze_scenario builds
\* has a weighted mean of at least 3.0, a multiplier of at least 1.02, a score
\* of at least 3.06 and a level other than Minimal; the outcome (0.0, Minimal)
\* is reached only by a direct call of the aggregator, with an empty list or
\* with violations whose risk scores are all 0.
C30_Amended ==
    /\ AssessedFromParser
    /\ ZeroMinimal =>
           /\ AssessedDirectly
           /\ \A i \in DOMAIN violations : violations[i].risk_score = 0
    /\ (AssessedDirectly /\ violations = <<>>) => ZeroMinimal

\* one Low violation parsed from the answer: exactly 3.06, level Low
C30_Witness ==
    /\ Assessed
    /\ response = BlockMarker \o BodyAccess
    /\ Len(violations) = 1
    /\ violations[1].severity = "Low"
    /\ assessment.risk_score = LowestScore
    /\ assessment.overall_risk_level = "Low"

\* an answer with nothing to parse: the fallback alone, 5.1
C30_WitnessFallback ==
    /\ Assessed
    /\ response = ""
    /\ Len(violations) = 1
    /\ assessment.risk_score = Rat(51, 10)

\* a direct call with one violation of risk score 0
C30_WitnessZeroRisk ==
    /\ AssessedDirectly
    /\ violations = <<RiskViolation("Low", 0)>>
    /\ ZeroMinimal

\* a direct call with the empty list
C30_WitnessEmpty == AssessedDirectly /\ violations = <<>> /\ ZeroMinimal

=============================================================================
